---- MODULE Spec2Model ----
(***************************************************************************)
(* Move generation core of liverpool (contract rummy).                     *)
(*                                                                         *)
(* The model follows src/liverpool/hand.py (Hand: the transactional        *)
(* multiset), src/liverpool/generation.py (Setdex, IndexedHand, the        *)
(* run/set enumerators and the meld composer), src/liverpool/common.py     *)
(* (Card, Run, Set, Meld) and src/liverpool/combinatorics.py.              *)
(*                                                                         *)
(* A card is its integer encoding (Card.value).  A hand is a record of     *)
(* the fields of IndexedHand.  Operations that can raise return a record   *)
(* with an ok flag and the hand as the raise left it.                      *)
(***************************************************************************)
EXTENDS Integers, Sequences, FiniteSets, TLC

VARIABLES hand, base, txn, marks, last, pool, gen, emitted, h0, out

vars == <<hand, base, txn, marks, last, pool, gen, emitted, h0, out>>

(***************************************************************************)
(* Program constants                                                       *)
(***************************************************************************)
Color_MIN == 0
CLUB == 0
SPADE == 1
HEART == 2
DIAMOND == 3
Color_MAX == 3
Rank_MIN == 2
Rank_MAX == 14
JOKER_MASK == 64
Run_MIN == 4
Set_MIN == 3
DEFAULT_JOKER_COLOR == SPADE
NUM_BITS == 2
SET_MASK == 3
MAX_RUN_JOKERS == 3
SET_LUT_MAX_JOKERS == 3
RUN_LUT_MAX_JOKERS == 3

\* The take-stack's transaction marker (None in the source).
None == 0 - 1

Colors == Color_MIN..Color_MAX
Ranks == Rank_MIN..Rank_MAX

\* Color.iter(), Rank.iter()
Color_iter == <<CLUB, SPADE, HEART, DIAMOND>>
Rank_iter == <<>> \o [i \in 1..(Rank_MAX - Rank_MIN + 1) |-> Rank_MIN + i - 1]

(***************************************************************************)
(* Bounds of the model                                                     *)
(***************************************************************************)
\* SpecHand: most copies of one card, most jokers, longest take-stack
MaxCopies == 1
MaxJokers == 2
MaxStack == 6

(***************************************************************************)
(* Generic helpers                                                         *)
(***************************************************************************)
Last(s) == s[Len(s)]
Front(s) == SubSeq(s, 1, Len(s) - 1)
Range(s) == {s[i] : i \in DOMAIN s}
Pow2(n) == 2 ^ n

RECURSIVE Flatten(_, _, _)
Flatten(ss, lo, hi) ==
    IF lo > hi THEN <<>>
    ELSE IF lo = hi THEN <<>> \o ss[lo]
    ELSE LET mid == (lo + hi) \div 2 IN
         Flatten(ss, lo, mid) \o Flatten(ss, mid + 1, hi)

Concat(ss) == LET t == <<>> \o ss IN Flatten(t, 1, Len(t))

\* number of occurrences of x in the sequence s
Count(s, x) == Cardinality({i \in DOMAIN s : s[i] = x})

\* the same items as often, whatever their order
SameCombos(a, b) == \A x \in Range(a) \cup Range(b) : Count(a, x) = Count(b, x)

(***************************************************************************)
(* Card (common.py)                                                        *)
(***************************************************************************)
Card_of(rank, color, joker) ==
    rank + color * (Rank_MAX + 1) + (IF joker THEN JOKER_MASK ELSE 0)

\* Card.joker(): the unmaterialized joker
Card_joker == JOKER_MASK

is_joker(v) == (v \div JOKER_MASK) % 2 = 1
masked_value(v) == v % JOKER_MASK
\* the properties Card.color and Card.rank; None for the unmaterialized joker
Card_color(v) == IF masked_value(v) = 0 THEN None ELSE masked_value(v) \div (Rank_MAX + 1)
Card_rank(v) == IF masked_value(v) = 0 THEN None ELSE masked_value(v) % (Rank_MAX + 1)

(***************************************************************************)
(* Setdex (generation.py)                                                  *)
(***************************************************************************)
\* mutant: append that shifts by one bit too many per suit
Setdex_append_wide(value, color) == value + Pow2((NUM_BITS + 1) * color)

Setdex_append(value, color) == value + Pow2(NUM_BITS * color)

Setdex_remove(value, color) == value - Pow2(NUM_BITS * color)
Setdex_count(value, color) == (value \div Pow2(NUM_BITS * color)) % (SET_MASK + 1)

\* Setdex.__iter__: each color as many times as its sub-counter says
RECURSIVE Repeat(_, _)
Repeat(x, n) == IF n <= 0 THEN <<>> ELSE <<x>> \o Repeat(x, n - 1)

Setdex_iter(value) ==
    Concat([i \in 1..Len(Color_iter) |->
              Repeat(Color_iter[i], Setdex_count(value, Color_iter[i]))])

(***************************************************************************)
(* Hand and IndexedHand (hand.py, generation.py)                           *)
(***************************************************************************)
\* The natural cards that the specifications below ever put into a hand
DealtCards ==
    {Card_of(2, CLUB, FALSE), Card_of(2, HEART, FALSE), Card_of(2, DIAMOND, FALSE),
     Card_of(3, HEART, FALSE), Card_of(4, HEART, FALSE), Card_of(5, HEART, FALSE),
     Card_of(14, SPADE, FALSE)}

\* Hand.cards is a defaultdict(int): a card that was never put counts 0.
\* The model keeps an entry for every card that is ever put (and for any
\* other card once it is put) and reads 0 elsewhere.
card_count(h, card) == IF card \in DOMAIN h.cards THEN h.cards[card] ELSE 0

\* IndexedHand.__init__ then Hand.__init__: the cards argument is never
\* read (the loop runs over the new, empty self.cards), and the
\* constructor ends with commit().
IndexedHand_init ==
    [cards    |-> [c \in DealtCards |-> 0],
     jokers   |-> 0,
     stack    |-> <<None, None>>,
     rundexen |-> [color \in Colors |-> [r \in 0..Rank_MAX |-> 0]],
     setdexen |-> [r \in 0..Rank_MAX |-> 0]]

commit(h) == [h EXCEPT !.stack = Append(@, None)]

\* mutant: truncate that leaves no marker behind
truncate_empty(h) == [h EXCEPT !.stack = <<>>]

truncate(h) == [h EXCEPT !.stack = <<None>>]

Hand_put_card(h, card) ==
    IF card = Card_joker
    THEN [h EXCEPT !.jokers = @ + 1]
    ELSE [h EXCEPT !.cards = [c \in DOMAIN @ \cup {card} |->
                                 IF c = card THEN card_count(h, c) + 1 ELSE @[c]]]

\* mutant: put_card that forgets the set index
put_card_unindexed(h, card) ==
    LET h1 == Hand_put_card(h, card) IN
    IF ~is_joker(card)
    THEN [h1 EXCEPT !.rundexen[Card_color(card)][Card_rank(card)] = @ + 1]
    ELSE h1

put_card(h, card) ==
    LET h1 == Hand_put_card(h, card) IN
    IF ~is_joker(card)
    THEN [h1 EXCEPT !.rundexen[Card_color(card)][Card_rank(card)] = @ + 1,
                    !.setdexen[Card_rank(card)] = Setdex_append(@, Card_color(card))]
    ELSE h1

\* mutant: take_card that does not look whether a joker is left
Hand_take_card_unguarded(h, card) ==
    IF card = Card_joker \/ card_count(h, card) <= 0
    THEN [ok |-> TRUE,
          h |-> [h EXCEPT !.jokers = @ - 1, !.stack = Append(@, Card_joker)],
          taken |-> Card_joker]
    ELSE [ok |-> TRUE,
          h |-> [h EXCEPT !.cards[card] = @ - 1, !.stack = Append(@, card)],
          taken |-> card]

\* Hand.take_card: a joker stands in for a card whose count is zero.
Hand_take_card(h, card) ==
    IF card = Card_joker \/ card_count(h, card) <= 0
    THEN IF h.jokers = 0
         THEN [ok |-> FALSE, h |-> h, taken |-> None]
         ELSE [ok |-> TRUE,
               h |-> [h EXCEPT !.jokers = @ - 1, !.stack = Append(@, Card_joker)],
               taken |-> Card_joker]
    ELSE [ok |-> TRUE,
          h |-> [h EXCEPT !.cards[card] = @ - 1, !.stack = Append(@, card)],
          taken |-> card]

\* mutant: the indices follow the card asked for, also when a joker was taken
take_card_by_asked(h, card) ==
    LET r == Hand_take_card(h, card) IN
    IF r.ok /\ ~is_joker(card)
    THEN [r EXCEPT !.h.rundexen[Card_color(card)][Card_rank(card)] = @ - 1,
                   !.h.setdexen[Card_rank(card)] = Setdex_remove(@, Card_color(card))]
    ELSE r

take_card(h, card) ==
    LET r == Hand_take_card(h, card) IN
    IF r.ok /\ ~is_joker(r.taken)
    THEN [r EXCEPT !.h.rundexen[Card_color(card)][Card_rank(card)] = @ - 1,
                   !.h.setdexen[Card_rank(card)] = Setdex_remove(@, Card_color(card))]
    ELSE r

\* Hand.rollback: put back everything above the topmost marker.  Reading
\* the top of an empty stack raises IndexError (ok = FALSE).
RECURSIVE rollback(_)
rollback(h) ==
    IF Len(h.stack) = 0 THEN [ok |-> FALSE, h |-> h]
    ELSE IF Last(h.stack) = None THEN [ok |-> TRUE, h |-> h]
    ELSE rollback(put_card([h EXCEPT !.stack = Front(@)], Last(h.stack)))

\* mutant: undo that pops the marker and puts nothing back
undo_marker_only(h) ==
    IF ~(Len(h.stack) > 1) THEN [ok |-> FALSE, h |-> h]
    ELSE [ok |-> Last(h.stack) = None, h |-> [h EXCEPT !.stack = Front(@)]]

\* Hand.undo: two asserts, the second one pops before it compares.
undo(h) ==
    IF ~(Len(h.stack) > 1) THEN [ok |-> FALSE, h |-> h]
    ELSE IF Last(h.stack) # None
         THEN [ok |-> FALSE, h |-> [h EXCEPT !.stack = Front(@)]]
         ELSE rollback([h EXCEPT !.stack = Front(@)])

\* take_combo (take_run / take_set): take_card on every card of the combo,
\* in order; an InvalidTake leaves the cards taken so far on the stack.
RECURSIVE take_combo(_, _)
take_combo(h, combo) ==
    IF combo = <<>> THEN [ok |-> TRUE, h |-> h]
    ELSE LET r == take_card(h, Head(combo)) IN
         IF r.ok THEN take_combo(r.h, Tail(combo))
         ELSE [ok |-> FALSE, h |-> r.h]

RECURSIVE take_combos(_, _)
take_combos(h, combos) ==
    LET rest(r) == IF r.ok THEN take_combos(r.h, Tail(combos)) ELSE r
    IN  IF combos = <<>> THEN [ok |-> TRUE, h |-> h]
        ELSE rest(take_combo(h, Head(combos)))

\* mutant: take_committed that swallows InvalidTake and reports success
take_committed_unchecked(h, combos, do_commit) ==
    LET settle(r) ==
            [ok |-> TRUE, h |-> IF do_commit THEN commit(r.h) ELSE rollback(r.h).h]
    IN  settle(take_combos(h, combos))

\* take_committed(hand, combos, commit)
take_committed(h, combos, do_commit) ==
    LET settle(r) ==
            IF r.ok
            THEN [ok |-> TRUE, h |-> IF do_commit THEN commit(r.h) ELSE rollback(r.h).h]
            ELSE [ok |-> FALSE, h |-> rollback(r.h).h]
    IN  settle(take_combos(h, combos))

(***************************************************************************)
(* combinatorics.py                                                        *)
(***************************************************************************)
\* Python's ordering of tuples of integers
RECURSIVE LexLess(_, _)
LexLess(a, b) ==
    IF b = <<>> THEN FALSE
    ELSE IF a = <<>> THEN TRUE
    ELSE IF Head(a) # Head(b) THEN Head(a) < Head(b)
    ELSE LexLess(Tail(a), Tail(b))

\* uniq: drops an item equal to the one before it
uniq(s) ==
    LET keep == SelectSeq([i \in 1..Len(s) |-> i],
                          LAMBDA i : i = 1 \/ s[i] # s[i - 1])
    IN  <<>> \o [k \in 1..Len(keep) |-> s[keep[k]]]

\* itertools.combinations(s, k), in its order
RECURSIVE combinations(_, _)
combinations(s, k) ==
    IF k = 0 THEN << <<>> >>
    ELSE IF Len(s) < k THEN <<>>
    ELSE LET with == combinations(Tail(s), k - 1) IN
         [i \in 1..Len(with) |-> <<Head(s)>> \o with[i]] \o combinations(Tail(s), k)

\* itertools.combinations_with_replacement(s, k), in its order
RECURSIVE combinations_with_replacement(_, _)
combinations_with_replacement(s, k) ==
    IF k = 0 THEN << <<>> >>
    ELSE IF s = <<>> THEN <<>>
    ELSE LET with == combinations_with_replacement(s, k - 1) IN
         [i \in 1..Len(with) |-> <<Head(s)>> \o with[i]]
             \o combinations_with_replacement(Tail(s), k)

unique_combinations(cards, number) == uniq(combinations(cards, number))

\* sorted(s, key=...), keys[i] being the key of s[i], a tuple of integers:
\* the distinct keys in increasing order, and under each key its items in
\* the order they came (the sort is stable).
SortBy(s, keys) ==
    LET ks == <<>> \o keys
        D == Range(ks)
        below == {<<x, Cardinality({y \in D : LexLess(y, x)})>> : x \in D}
        d == <<>> \o [k \in 1..Cardinality(D) |->
                        (CHOOSE p \in below : p[2] = k - 1)[1]]
        index == <<>> \o [i \in 1..Len(ks) |-> i]
        items(key) == LET at == SelectSeq(index, LAMBDA i : ks[i] = key)
                      IN  <<>> \o [j \in 1..Len(at) |-> s[at[j]]]
    IN  Concat([k \in 1..Len(d) |-> items(d[k])])

\* sorted(values), by Python's tuple order
sorted(s) == SortBy(s, s)

sort_uniq(values) == uniq(sorted(values))

(***************************************************************************)
(* Run and Set (common.py)                                                 *)
(***************************************************************************)
\* Run.__init__: the checks of the constructor
Run_valid(cards) ==
    /\ Len(cards) >= Run_MIN
    /\ \A i \in DOMAIN cards : Card_color(cards[i]) = Card_color(cards[1])
    /\ \A i \in DOMAIN cards : Card_rank(cards[i]) = Card_rank(cards[1]) + i - 1

\* Run.of(color, start, jokers); jokers is a sequence of 0/1 flags
Run_of(color, start, jokers) ==
    [i \in 1..Len(jokers) |-> Card_of(start + i - 1, color, jokers[i] = 1)]

\* Set.__init__: the cards sorted, then the checks
Set_valid(cards) ==
    /\ Len(cards) >= Set_MIN
    /\ \A i \in DOMAIN cards : Card_rank(cards[i]) = Card_rank(cards[1])

\* sorted(cards): Card.__lt__ compares the encodings
sorted_cards(s) == SortBy(s, [i \in 1..Len(s) |-> <<s[i]>>])

\* Set.of(rank, colors): a joker slot becomes the Spade joker of the rank
Set_of(rank, colors) ==
    sorted_cards([i \in 1..Len(colors) |->
        IF colors[i] # None THEN Card_of(rank, colors[i], FALSE)
        ELSE Card_of(rank, DEFAULT_JOKER_COLOR, TRUE)])

(***************************************************************************)
(* Run and set enumeration (generation.py)                                 *)
(***************************************************************************)
SeqMin(s) == CHOOSE x \in Range(s) : \A y \in Range(s) : x <= y
SeqMax(s) == CHOOSE x \in Range(s) : \A y \in Range(s) : x >= y

\* mutant: interleave that lets a rank that is neither held nor a joker
\* pass as a joker
interleave_gaps(card_vector, joker_vector) ==
    LET all   == card_vector \o joker_vector
        start == SeqMin(all)
        end   == SeqMax(all)
        cs    == Range(card_vector)
        js    == Range(joker_vector)
    IN  IF \E rank \in start..end : rank \in cs /\ rank \in js
        THEN [ok |-> FALSE, run |-> <<>>]
        ELSE [ok |-> TRUE,
              run |-> <<start>> \o [i \in 1..(end - start + 1) |->
                                      IF (start + i - 1) \notin cs THEN 1 ELSE 0]]

\* interleave(card_vector, joker_vector): ok = FALSE is ValueError.
\* The result is <<start>> \o jokers, jokers as 0/1 flags.
interleave(card_vector, joker_vector) ==
    LET all   == card_vector \o joker_vector
        start == SeqMin(all)
        end   == SeqMax(all)
        cs    == Range(card_vector)
        js    == Range(joker_vector)
    IN  IF \E rank \in start..end :
              \/ rank \in cs /\ rank \in js
              \/ rank \notin cs /\ rank \notin js
        THEN [ok |-> FALSE, run |-> <<>>]
        ELSE [ok |-> TRUE,
              run |-> <<start>> \o [i \in 1..(end - start + 1) |->
                                      IF (start + i - 1) \notin cs THEN 1 ELSE 0]]

\* unique_combinations(Rank.iter(), num_jokers) for each number of jokers
joker_vectors ==
    <<unique_combinations(Rank_iter, 0), unique_combinations(Rank_iter, 1),
      unique_combinations(Rank_iter, 2), unique_combinations(Rank_iter, 3)>>

Min2(a, b) == IF a < b THEN a ELSE b

\* the runs that one (num_jokers, selected_cards) pair adds to the list
runs_of_selection(selected_cards, num_jokers) ==
    LET jv == joker_vectors[num_jokers + 1]
        ok == SelectSeq([i \in 1..Len(jv) |-> interleave(selected_cards, jv[i])],
                        LAMBDA r : r.ok /\ Len(r.run) - 1 >= Run_MIN)
    IN  [i \in 1..Len(ok) |-> ok[i].run]

ranks_from_rundex(rundex, jokers) ==
    LET total_jokers == Min2(MAX_RUN_JOKERS, jokers)
        ranks == SelectSeq([i \in 1..(Rank_MAX + 1) |-> i - 1], LAMBDA r : rundex[r] # 0)
        per_size(num_jokers, rank_selection) ==
            LET sel == unique_combinations(ranks, rank_selection) IN
            Concat([i \in 1..Len(sel) |-> runs_of_selection(sel[i], num_jokers)])
        per_jokers(num_jokers) ==
            LET lo == Run_MIN - num_jokers IN
            Concat([i \in 1..(IF Len(ranks) >= lo THEN Len(ranks) - lo + 1 ELSE 0) |->
                      per_size(num_jokers, lo + i - 1)])
        runs == Concat([i \in 1..(total_jokers + 1) |-> per_jokers(i - 1)])
    IN  sort_uniq(runs)

orderable_colors_with_none(tup) ==
    [i \in 1..Len(tup) |-> IF tup[i] = None THEN 0 - 1 ELSE tup[i]]

\* sorted(values, key=orderable_colors_with_none)
sorted_colors(s) ==
    SortBy(s, [i \in 1..Len(s) |-> orderable_colors_with_none(s[i])])

\* mutant: the sizes start one above min_size
sets_from_colors_larger(colors, jokers, min_size) ==
    LET jokered_colors == Repeat(None, jokers) \o colors
        n == Len(jokered_colors)
        all == Concat([i \in 1..(IF n > min_size THEN n - min_size ELSE 0) |->
                         unique_combinations(jokered_colors, min_size + i)])
    IN  uniq(sorted_colors(all))

sets_from_colors(colors, jokers, min_size) ==
    LET jokered_colors == Repeat(None, jokers) \o colors
        n == Len(jokered_colors)
        all == Concat([i \in 1..(IF n >= min_size THEN n - min_size + 1 ELSE 0) |->
                         unique_combinations(jokered_colors, min_size + i - 1)])
    IN  uniq(sorted_colors(all))

iter_sets(h) ==
    Concat([i \in 1..(Rank_MAX - 1) |->
        LET rank == i + 1
            combs == sets_from_colors(Setdex_iter(h.setdexen[rank]), h.jokers, Set_MIN)
        IN  [k \in 1..Len(combs) |-> Set_of(rank, combs[k])]])

iter_runs(h) ==
    Concat([i \in 1..Len(Color_iter) |->
        LET color == Color_iter[i]
            runs == ranks_from_rundex(h.rundexen[color], h.jokers)
        IN  [k \in 1..Len(runs) |-> Run_of(color, Head(runs[k]), Tail(runs[k]))]])

(***************************************************************************)
(* The lookup tables (generation.py): what precompute_luts stores, and the *)
(* enumerators that read them.                                             *)
(***************************************************************************)
\* rundex_to_vector(rundex): bit k - Rank.MIN is set when rank k is held
RECURSIVE vector_bits(_, _)
vector_bits(rundex, k) ==
    IF k > Rank_MAX THEN 0
    ELSE (IF rundex[k] # 0 THEN Pow2(k - Rank_MIN) ELSE 0) + vector_bits(rundex, k + 1)

rundex_to_vector(rundex) == vector_bits(rundex, 0)

\* mutant: the bit of rank k read at position k, not at k - Rank.MIN
vector_to_rundex_unshifted(vector) ==
    [k \in 0..Rank_MAX |->
        IF k < Rank_MIN THEN 0
        ELSE IF (vector \div Pow2(k)) % 2 = 1 THEN 1 ELSE 0]

\* vector_to_rundex(vector): one count of 0 or 1 for every rank 0..Rank.MAX
vector_to_rundex(vector) ==
    [k \in 0..Rank_MAX |->
        IF k < Rank_MIN THEN 0
        ELSE IF (vector \div Pow2(k - Rank_MIN)) % 2 = 1 THEN 1 ELSE 0]

\* _SET_LUT[total_jokers][setdex.value] as precompute_luts fills it
SET_LUT(total_jokers, value) == sets_from_colors(Setdex_iter(value), total_jokers, Set_MIN)

\* _RUN_LUT[total_jokers][card_vector] as precompute_luts fills it
RUN_LUT(total_jokers, card_vector) ==
    ranks_from_rundex(vector_to_rundex(card_vector), total_jokers)

iter_runs_lut(h) ==
    LET of(color, runs) ==
            [k \in 1..Len(runs) |-> Run_of(color, Head(runs[k]), Tail(runs[k]))]
    IN  Concat([i \in 1..Len(Color_iter) |->
            of(Color_iter[i], RUN_LUT(Min2(h.jokers, RUN_LUT_MAX_JOKERS),
                                      rundex_to_vector(h.rundexen[Color_iter[i]])))])

iter_sets_lut(h) ==
    LET of(rank, combs) == [k \in 1..Len(combs) |-> Set_of(rank, combs[k])]
    IN  Concat([i \in 1..(Rank_MAX - 1) |->
            of(i + 1, SET_LUT(Min2(SET_LUT_MAX_JOKERS, h.jokers), h.setdexen[i + 1]))])

(***************************************************************************)
(* Specification SpecHand: the transactional interface of an IndexedHand,  *)
(* called in any order by a client.                                        *)
(*                                                                         *)
(* History variables, not state of the program:                            *)
(*   base   the hand when the top of the take-stack last became a marker   *)
(*   txn    what happened since: clean (nothing but takes), the number of  *)
(*          cards taken, whether a combo take failed part-way, whether a   *)
(*          joker stood in for a missing card                              *)
(*   marks  for every commit() not yet undone, the hand the transaction    *)
(*          started from, and whether it is still meaningful               *)
(*   last   the last call: its name, argument, outcome, and txn before it  *)
(*   pool   the combos of the last enumeration                             *)
(***************************************************************************)
\* the cards a client puts and the cards it asks for
HandCards == {Card_of(2, HEART, FALSE), Card_of(3, HEART, FALSE)}
AskCards == HandCards \cup {Card_joker}

NoTxn == [clean |-> TRUE, takes |-> 0, failed |-> FALSE, stood_in |-> FALSE,
          round |-> FALSE]
Dirty == [NoTxn EXCEPT !.clean = FALSE]
NoCall == [op |-> "init", ok |-> TRUE, arg |-> 0, txn |-> NoTxn,
           valid |-> FALSE, undone |-> 0]
NoMark == [S |-> IndexedHand_init, valid |-> FALSE, takes |-> 0]
NoGen == [pc |-> "idle", num_sets |-> 0, num_runs |-> 0,
          outer |-> <<>>, i |-> 0, inner |-> <<>>, j |-> 0]

NoOut == [op |-> "none", res |-> <<>>]

Top(h) == IF Len(h.stack) = 0 THEN Card_joker ELSE Last(h.stack)

Held(h, card) ==
    IF card = Card_joker THEN h.jokers + Count(h.stack, Card_joker)
    ELSE card_count(h, card) + Count(h.stack, card)

\* base and txn after a call that is not a take and not a rollback
Rebase(h) ==
    /\ base' = IF Top(h) = None THEN h ELSE IndexedHand_init
    /\ txn' = IF Top(h) = None THEN NoTxn ELSE Dirty

Call(op, ok, arg) ==
    [op |-> op, ok |-> ok, arg |-> arg, txn |-> txn, valid |-> FALSE, undone |-> 0]

InitHand ==
    /\ hand = IndexedHand_init
    /\ base = IndexedHand_init
    /\ txn = NoTxn
    /\ marks = << [S |-> truncate(IndexedHand_init), valid |-> TRUE, takes |-> 0] >>
    /\ last = NoCall
    /\ pool = <<>>
    /\ gen = NoGen
    /\ emitted = <<>>
    /\ h0 = IndexedHand_init
    /\ out = NoOut

PutCard(card) ==
    /\ Held(hand, card) < (IF card = Card_joker THEN MaxJokers ELSE MaxCopies)
    /\ hand' = put_card(hand, card)
    /\ Rebase(hand')
    /\ marks' = [k \in 1..Len(marks) |-> NoMark]
    /\ last' = Call("put_card", TRUE, card)
    /\ pool' = <<>>
    /\ UNCHANGED <<gen, emitted, h0, out>>

TakeCard(card) ==
    /\ Len(hand.stack) < MaxStack
    /\ LET r == take_card(hand, card) IN
       /\ hand' = r.h
       /\ txn' = IF r.ok /\ txn.clean
                 THEN [txn EXCEPT !.takes = @ + 1,
                                  !.stood_in = @ \/ (r.taken # card)]
                 ELSE txn
       /\ last' = Call("take_card", r.ok, card)
    /\ UNCHANGED <<base, marks, pool, gen, emitted, h0, out>>

Enumerate ==
    /\ Top(hand) = None
    /\ pool = <<>>
    /\ pool' = iter_sets(hand) \o iter_runs(hand)
    /\ pool' # <<>>
    /\ last' = Call("enumerate", TRUE, 0)
    /\ UNCHANGED <<hand, base, txn, marks, gen, emitted, h0, out>>

TakeCombo(k) ==
    /\ Len(hand.stack) + Len(pool[k]) <= MaxStack
    /\ LET r == take_combo(hand, pool[k]) IN
       /\ hand' = r.h
       /\ txn' = IF txn.clean
                 THEN [txn EXCEPT !.takes = @ + Len(r.h.stack) - Len(hand.stack),
                                  !.failed = @ \/ ~r.ok,
                                  !.stood_in = @ \/ (\E n \in 1..Len(pool[k]) :
                                       /\ Len(hand.stack) + n <= Len(r.h.stack)
                                       /\ ~is_joker(pool[k][n])
                                       /\ r.h.stack[Len(hand.stack) + n] = Card_joker)]
                 ELSE txn
       /\ last' = Call("take_combo", r.ok, k)
    /\ UNCHANGED <<base, marks, pool, gen, emitted, h0, out>>

Commit ==
    /\ Len(hand.stack) < MaxStack
    /\ hand' = commit(hand)
    /\ marks' = Append(marks, IF txn.clean
                               THEN [S |-> base, valid |-> TRUE, takes |-> txn.takes]
                               ELSE NoMark)
    /\ base' = hand'
    /\ txn' = NoTxn
    /\ last' = Call("commit", TRUE, 0)
    /\ pool' = <<>>
    /\ UNCHANGED <<gen, emitted, h0, out>>

Rollback ==
    /\ LET r == rollback(hand) IN
       /\ hand' = r.h
       /\ last' = Call("rollback", r.ok, 0)
    /\ IF txn.clean THEN base' = base ELSE base' = hand'
    /\ txn' = [NoTxn EXCEPT !.round = txn.clean /\ (txn.round \/ txn.takes > 0)]
    /\ UNCHANGED <<marks, pool, gen, emitted, h0, out>>

\* undo() is called where it unwinds one transaction: the transaction was
\* takes and then commit(), and whatever was taken since is rolled back
UndoPre ==
    /\ marks # <<>>
    /\ Last(marks).valid
    /\ txn.clean
    /\ Top(hand) = None

Undo ==
    /\ LET r == undo(hand) IN
       /\ hand' = r.h
       /\ last' = [Call("undo", r.ok, 0) EXCEPT
                      !.valid = UndoPre,
                      !.undone = IF UndoPre THEN Last(marks).takes ELSE 0]
       /\ marks' = IF r.ok /\ marks # <<>> THEN Front(marks)
                   ELSE [k \in 1..Len(marks) |-> NoMark]
    /\ Rebase(hand')
    /\ pool' = <<>>
    /\ UNCHANGED <<gen, emitted, h0, out>>

Truncate ==
    /\ hand' = truncate(hand)
    /\ marks' = <<>>
    /\ base' = hand'
    /\ txn' = NoTxn
    /\ last' = Call("truncate", TRUE, 0)
    /\ pool' = <<>>
    /\ UNCHANGED <<gen, emitted, h0, out>>

NextHand ==
    \/ \E card \in HandCards \cup {Card_joker} : PutCard(card)
    \/ \E card \in AskCards : TakeCard(card)
    \/ Enumerate
    \/ \E k \in 1..Len(pool) : TakeCombo(k)
    \/ Commit
    \/ Rollback
    \/ Undo
    \/ Truncate

SpecHand == InitHand /\ [][NextHand]_vars

(***************************************************************************)
(* Claims on SpecHand                                                      *)
(***************************************************************************)
\* C4: from a hand whose take-stack top is a marker, after any takes (of
\* single cards, of the cards of an enumerated Run or Set, a combo take
\* that fails part-way included), rollback() gives back the hand as it
\* was: card counts, joker count, both indices and the take-stack.
C4_RollbackRoundTrip ==
    [][(last'.op = "rollback" /\ txn.clean) => (last'.ok /\ hand' = base)]_vars

C4_Witness ==
    /\ last.op = "rollback"
    /\ last.txn.clean
    /\ last.txn.failed
    /\ last.txn.stood_in
    /\ last.txn.takes >= 2
    /\ hand = base

\* C5: take(card) of a card whose count is zero fails with InvalidTake and
\* changes nothing, whether or not the hand holds jokers.
C5_TakeOfMissingCardFails ==
    [][\A card \in AskCards \ {Card_joker} :
          (last'.op = "take_card" /\ last'.arg = card /\ card_count(hand, card) = 0)
              => (~last'.ok /\ hand' = hand)]_vars

\* C6: undo() unwinds exactly one transaction: it pops the marker of the
\* last commit() and gives back the hand that transaction started from,
\* leaving everything below untouched.
C6_UndoUnwindsOneTransaction ==
    [][(last'.op = "undo" /\ UndoPre) => (last'.ok /\ hand' = Last(marks).S)]_vars

C6_Witness ==
    /\ last.op = "undo"
    /\ last.valid
    /\ last.undone >= 1
    /\ last.txn.round
    /\ Len(hand.stack) >= 2

\* both indices of the hand agree with its card counts
IndexMatches(h) ==
    \A card \in DOMAIN h.cards :
        ~is_joker(card) =>
            /\ h.rundexen[Card_color(card)][Card_rank(card)] = h.cards[card]
            /\ Setdex_count(h.setdexen[Card_rank(card)], Card_color(card)) = h.cards[card]

\* the call just made put a joker, took a joker, or took a joker in place
\* of the card it asked for
JokerMoved ==
    \/ last'.op = "put_card" /\ last'.arg = Card_joker
    \/ /\ last'.op = "take_card"
       /\ last'.ok
       /\ (last'.arg = Card_joker \/ card_count(hand, last'.arg) = 0)

C14_CountsNeverNegative ==
    /\ hand.jokers >= 0
    /\ \A card \in DOMAIN hand.cards : hand.cards[card] >= 0

\* a take has just failed on a hand that was emptied by takes
C14_Witness ==
    /\ last.op = "take_card"
    /\ ~last.ok
    /\ hand.jokers = 0
    /\ \A card \in DOMAIN hand.cards : hand.cards[card] = 0
    /\ Count(hand.stack, Card_joker) >= 1
    /\ \E card \in HandCards : Count(hand.stack, card) = 1

\* C28: undo() is atomic on failure: called on a take-stack that holds only
\* the initial marker, or whose top is a taken card, it fails and leaves
\* the card counts, the joker count and the take-stack as they were.
C28_UndoAtomicOnFailure ==
    [][(last'.op = "undo" /\ (Len(hand.stack) <= 1 \/ Top(hand) # None))
          => /\ ~last'.ok
             /\ hand'.cards = hand.cards
             /\ hand'.jokers = hand.jokers
             /\ hand'.stack = hand.stack]_vars

\* C29: in every reachable state, after failing calls too, the take-stack
\* is non-empty and its bottom element is a marker, and rollback() always
\* stops at a marker, never running off the bottom of the stack.
C29_StackKeepsBottomMarker ==
    /\ Len(hand.stack) >= 1
    /\ hand.stack[1] = None
    /\ last.op = "rollback" => (last.ok /\ Top(hand) = None)

C29_Witness ==
    /\ last.op = "undo"
    /\ ~last.ok
    /\ last.txn.takes > 0
    /\ hand.stack = <<None>>

(***************************************************************************)
(* Specification SpecEnum: hands are dealt card by card, and iter_sets     *)
(* and iter_runs are applied to them.  out holds the last enumeration.     *)
(***************************************************************************)
EnumMaxCopies == 2
EnumMaxJokers == 4
EnumMaxCards == 5

NumCards(h) == Cardinality(UNION {{c} \X (1..h.cards[c]) : c \in DOMAIN h.cards})

NoDup(s) == \A i, j \in DOMAIN s : s[i] = s[j] => i = j

NumJokers(cards) == Cardinality({i \in DOMAIN cards : is_joker(cards[i])})

InitEnum ==
    /\ hand = IndexedHand_init
    /\ out = NoOut
    /\ base = IndexedHand_init
    /\ txn = NoTxn
    /\ marks = <<>>
    /\ last = NoCall
    /\ pool = <<>>
    /\ gen = NoGen
    /\ emitted = <<>>
    /\ h0 = IndexedHand_init

EnumPut(card) ==
    /\ IF card = Card_joker
       THEN hand.jokers < EnumMaxJokers
       ELSE card_count(hand, card) < EnumMaxCopies /\ NumCards(hand) < EnumMaxCards
    /\ hand' = put_card(hand, card)
    /\ out' = NoOut
    /\ UNCHANGED <<base, txn, marks, last, pool, gen, emitted, h0>>

IterSets ==
    /\ out.op = "none"
    /\ out' = [op |-> "iter_sets", res |-> iter_sets(hand)]
    /\ UNCHANGED <<hand, base, txn, marks, last, pool, gen, emitted, h0>>

IterRuns ==
    /\ out.op = "none"
    /\ out' = [op |-> "iter_runs", res |-> iter_runs(hand)]
    /\ UNCHANGED <<hand, base, txn, marks, last, pool, gen, emitted, h0>>

IterSetsLut ==
    /\ out.op = "none"
    /\ out' = [op |-> "iter_sets_lut", res |-> iter_sets_lut(hand)]
    /\ UNCHANGED <<hand, base, txn, marks, last, pool, gen, emitted, h0>>

IterRunsLut ==
    /\ out.op = "none"
    /\ out' = [op |-> "iter_runs_lut", res |-> iter_runs_lut(hand)]
    /\ UNCHANGED <<hand, base, txn, marks, last, pool, gen, emitted, h0>>

NextEnum ==
    \/ \E card \in DealtCards \cup {Card_joker} : EnumPut(card)
    \/ IterSets
    \/ IterRuns
    \/ IterSetsLut
    \/ IterRunsLut

SpecEnum == InitEnum /\ [][NextEnum]_vars

(***************************************************************************)
(* Claims on SpecEnum                                                      *)
(***************************************************************************)
\* the ranks held in a suit, by the card counts
HeldRanks(h, color) == {r \in Ranks : card_count(h, Card_of(r, color, FALSE)) > 0}

\* the run of a suit on L ranks from start whose natural positions are N
RunCards(color, start, L, N) ==
    [i \in 1..L |-> Card_of(start + i - 1, color, (start + i - 1) \notin N)]

\* every run the hand allows: at least Run.MIN long, inside the ranks,
\* natural positions held, at most min(jokers, 3) joker positions
DeclRuns(h) ==
    UNION {UNION {UNION {
        {RunCards(color, start, L, N) :
            N \in {M \in SUBSET (HeldRanks(h, color) \cap (start..(start + L - 1))) :
                      L - Cardinality(M) <= Min2(h.jokers, MAX_RUN_JOKERS)}}
        : L \in Run_MIN..(Rank_MAX - start + 1)}
        : start \in Ranks}
        : color \in Colors}

SetCards(rank, k, j) ==
    Concat([i \in 1..Len(Color_iter) |->
              Repeat(Card_of(rank, Color_iter[i], FALSE), k[Color_iter[i]])])
        \o Repeat(Card_of(rank, DEFAULT_JOKER_COLOR, TRUE), j)

\* the largest number of copies held of a card of the rank
MostHeld(h, rank) ==
    CHOOSE m \in 0..NumCards(h) :
        /\ \A c \in Colors : card_count(h, Card_of(rank, c, FALSE)) <= m
        /\ m > 0 => \E c \in Colors : card_count(h, Card_of(rank, c, FALSE)) = m

\* one Set for every multiset of at least Set.MIN cards drawn from the held
\* cards of one rank and the jokers of the hand
DeclSets(h) ==
    UNION {UNION {
        {SetCards(rank, k, j) :
            k \in {f \in [Colors -> 0..MostHeld(h, rank)] :
                     /\ \A c \in Colors : f[c] <= card_count(h, Card_of(rank, c, FALSE))
                     /\ f[CLUB] + f[SPADE] + f[HEART] + f[DIAMOND] + j >= Set_MIN}}
        : j \in 0..h.jokers}
        : rank \in Ranks}

C10_SetJokersCapped ==
    out.op = "iter_sets" =>
        \A i \in DOMAIN out.res :
            NumJokers(out.res[i]) <= Min2(hand.jokers, SET_LUT_MAX_JOKERS)

\* C11: for every hand, whatever its number of jokers, iter_sets_lut emits
\* the same multiset of Sets as iter_sets.
C11_SetsLutSameAsDirect ==
    out.op = "iter_sets_lut" => SameCombos(out.res, iter_sets(hand))

\* C12: for every hand, whatever its number of jokers and the multiplicity
\* of its cards, iter_runs_lut emits the same multiset of Runs as iter_runs.
C12_RunsLutSameAsDirect ==
    out.op = "iter_runs_lut" => SameCombos(out.res, iter_runs(hand))

\* a card held twice, more jokers than the table keeps, and runs emitted
C12_Witness ==
    /\ out.op = "iter_runs_lut"
    /\ hand.jokers > RUN_LUT_MAX_JOKERS
    /\ \E c \in DOMAIN hand.cards : hand.cards[c] = 2
    /\ \E i \in DOMAIN out.res : NumJokers(out.res[i]) = RUN_LUT_MAX_JOKERS
    /\ \E i \in DOMAIN out.res : NumJokers(out.res[i]) = 0

(***************************************************************************)
(* Specification SpecMelds: a hand is dealt card by card, then iter_melds  *)
(* is started on it and resumed by its consumer, one Meld at a time.       *)
(*                                                                         *)
(*   gen      the suspended generator: where it stands (pc), the           *)
(*            objective, the candidate combinations of the outer loop and  *)
(*            the index reached, and the same for the inner loop           *)
(*   h0       the hand when the enumeration started (history)              *)
(*   emitted  the Melds yielded so far (history)                           *)
(***************************************************************************)
MeldMaxCopies == 2
MeldMaxJokers == 1
MeldMaxCards == 7

MeldCards ==
    {Card_of(2, CLUB, FALSE), Card_of(2, HEART, FALSE), Card_of(2, DIAMOND, FALSE),
     Card_of(3, HEART, FALSE), Card_of(4, HEART, FALSE), Card_of(5, HEART, FALSE)}

\* objectives as <<num_sets, num_runs>>
Objectives == {<<1, 0>>, <<2, 0>>, <<0, 1>>, <<1, 1>>}

\* Meld(sets, runs) and the bytes Meld.__eq__ compares
Meld(sets, runs) == [sets |-> sets, runs |-> runs]
Meld_cards(m) == Concat(m.sets) \o Concat(m.runs)

\* mutant: combinations without replacement, a combo is never chosen twice
candidates_distinct(combos, number) == uniq(combinations(combos, number))

\* the candidates of one loop of iter_melds:
\* uniq(itertools.combinations_with_replacement(combos, number)), combos being
\* what set_iterator(hand) or run_iterator(hand) gave when the loop began
candidates(combos, number) == uniq(combinations_with_replacement(combos, number))

\* One loop of iter_melds from candidate lo on: take_committed on every
\* candidate in turn until one succeeds.  k is the index of that candidate
\* (0: none), h the hand after the calls.
RECURSIVE scan(_, _, _, _, _)
scan(h, cands, lo, hi, do_commit) ==
    LET one(r) == [k |-> IF r.ok THEN lo ELSE 0, h |-> r.h]
        mid == (lo + hi) \div 2
        right(left) == IF left.k # 0 THEN left
                       ELSE scan(left.h, cands, mid + 1, hi, do_commit)
    IN  IF lo > hi THEN [k |-> 0, h |-> h]
        ELSE IF lo = hi THEN one(take_committed(h, cands[lo], do_commit))
        ELSE right(scan(h, cands, lo, mid, do_commit))

\* iter_melds with sets and runs, from outer candidate lo on: up to the next
\* yield (pc "both") or to the end of the outer loop (pc "done")
RECURSIVE both_from(_, _, _, _)
both_from(h, g, outer, lo) ==
    LET retry(u, i) ==
            IF u.ok THEN both_from(u.h, g, outer, i + 1)
            ELSE [h |-> u.h, g |-> [g EXCEPT !.pc = "error"], yield |-> FALSE]
        found(i, runs, n) ==
            IF n.k # 0
            THEN [h |-> n.h,
                  g |-> [g EXCEPT !.pc = "both", !.i = i, !.inner = runs, !.j = n.k],
                  yield |-> TRUE]
            ELSE retry(undo(n.h), i)
        search(o, runs, inner) == found(o.k, runs, scan(o.h, inner, 1, Len(inner), FALSE))
        inside(o, runs) == search(o, runs, candidates(runs, g.num_runs))
        outside(o) ==
            IF o.k = 0 THEN [h |-> o.h, g |-> [g EXCEPT !.pc = "done"], yield |-> FALSE]
            ELSE inside(o, iter_runs(o.h))
    IN  outside(scan(h, outer, lo, Len(outer), TRUE))

\* one loop over the outer candidates with no inner loop
single_from(h, g, outer, lo, pc) ==
    LET found(o) ==
            IF o.k = 0 THEN [h |-> o.h, g |-> [g EXCEPT !.pc = "done"], yield |-> FALSE]
            ELSE [h |-> o.h, g |-> [g EXCEPT !.pc = pc, !.i = o.k], yield |-> TRUE]
    IN  found(scan(h, outer, lo, Len(outer), FALSE))

\* the outer candidates of the generator
outer_candidates(g) ==
    candidates(g.outer, IF g.num_runs = 0 THEN g.num_sets
                        ELSE IF g.num_sets = 0 THEN g.num_runs ELSE g.num_sets)

\* iter_melds, from where the generator stands to its next yield or its end
iter_melds(h, g) ==
    LET from(g1, outer, lo) ==
            IF g.num_runs = 0 THEN single_from(h, g1, outer, lo, "sets")
            ELSE IF g.num_sets = 0 THEN single_from(h, g1, outer, lo, "runs")
            ELSE both_from(h, g1, outer, lo)
        begin(g1) == from(g1, outer_candidates(g1), 1)
        retry(u, outer) ==
            IF u.ok THEN both_from(u.h, g, outer, g.i + 1)
            ELSE [h |-> u.h, g |-> [g EXCEPT !.pc = "error"], yield |-> FALSE]
        found(n, outer) ==
            IF n.k # 0 THEN [h |-> n.h, g |-> [g EXCEPT !.j = n.k], yield |-> TRUE]
            ELSE retry(undo(n.h), outer)
        resume(inner, outer) == found(scan(h, inner, g.j + 1, Len(inner), FALSE), outer)
        again(outer) ==
            IF g.pc = "both" THEN resume(candidates(g.inner, g.num_runs), outer)
            ELSE from(g, outer, g.i + 1)
    IN  IF g.pc = "new"
        THEN begin([g EXCEPT !.outer = IF g.num_runs # 0 /\ g.num_sets = 0
                                       THEN iter_runs(h) ELSE iter_sets(h)])
        ELSE again(outer_candidates(g))

\* the Meld the suspended generator has just yielded
yielded(g) ==
    LET of(outer) ==
            IF g.pc = "sets" THEN Meld(outer[g.i], <<>>)
            ELSE IF g.pc = "runs" THEN Meld(<<>>, outer[g.i])
            ELSE Meld(outer[g.i], candidates(g.inner, g.num_runs)[g.j])
    IN  of(outer_candidates(g))

InitMelds ==
    /\ hand = IndexedHand_init
    /\ gen = NoGen
    /\ emitted = <<>>
    /\ h0 = IndexedHand_init
    /\ base = IndexedHand_init
    /\ txn = NoTxn
    /\ marks = <<>>
    /\ last = NoCall
    /\ pool = <<>>
    /\ out = NoOut

MeldPut(card) ==
    /\ gen.pc = "idle"
    /\ NumCards(hand) + hand.jokers < MeldMaxCards
    /\ IF card = Card_joker THEN hand.jokers < MeldMaxJokers
       ELSE card_count(hand, card) < MeldMaxCopies
    /\ hand' = put_card(hand, card)
    /\ h0' = hand'
    /\ UNCHANGED <<gen, emitted, base, txn, marks, last, pool, out>>

MeldStart(objective) ==
    /\ gen.pc = "idle"
    /\ gen' = [NoGen EXCEPT !.pc = "new", !.num_sets = objective[1],
                            !.num_runs = objective[2]]
    /\ UNCHANGED <<hand, h0, emitted, base, txn, marks, last, pool, out>>

MeldNext ==
    /\ gen.pc \in {"new", "sets", "runs", "both"}
    /\ \E r \in {iter_melds(hand, gen)} :
       /\ hand' = r.h
       /\ gen' = r.g
       /\ emitted' = IF r.yield THEN Append(emitted, yielded(r.g)) ELSE emitted
    /\ UNCHANGED <<h0, base, txn, marks, last, pool, out>>

NextMelds ==
    \/ \E card \in MeldCards \cup {Card_joker} : MeldPut(card)
    \/ \E objective \in Objectives : MeldStart(objective)
    \/ MeldNext

SpecMelds == InitMelds /\ [][NextMelds]_vars

(***************************************************************************)
(* Claims on SpecMelds                                                     *)
(***************************************************************************)

\* copies of natural cards the Meld demands beyond the copies held
Shortfall(h, cards) ==
    Cardinality(UNION {{c} \X ((card_count(h, c) + 1)..Count(cards, c)) :
                          c \in {x \in Range(cards) : ~is_joker(x)}})

\* C1: every Meld emitted by iter_melds has exactly num_sets Sets and
\* num_runs Runs, and its joker cards plus its shortfall of natural cards
\* never exceed the jokers of the hand.
C1_MeldSound ==
    \A i \in DOMAIN emitted :
        /\ Len(emitted[i].sets) = gen.num_sets
        /\ Len(emitted[i].runs) = gen.num_runs
        /\ \A k \in DOMAIN emitted[i].sets : Set_valid(emitted[i].sets[k])
        /\ \A k \in DOMAIN emitted[i].runs : Run_valid(emitted[i].runs[k])
        /\ NumJokers(Meld_cards(emitted[i])) + Shortfall(h0, Meld_cards(emitted[i]))
              <= h0.jokers

C1_Witness ==
    /\ gen.pc = "done"
    /\ gen.num_sets = 1
    /\ gen.num_runs = 1
    /\ h0.jokers = 1
    /\ \E i \in DOMAIN emitted : NumJokers(Concat(emitted[i].sets)) = 1
    /\ \E i \in DOMAIN emitted : NumJokers(Concat(emitted[i].runs)) = 1

\* natural cards held in enough copies, joker positions within the jokers
Qualifies(h, cards) ==
    /\ \A c \in Range(cards) : ~is_joker(c) => Count(cards, c) <= card_count(h, c)
    /\ NumJokers(cards) <= h.jokers

\* C2: when iter_melds is exhausted, every multiset of num_sets Sets of
\* iter_sets(hand) and num_runs Runs of iter_runs(hand) whose natural cards
\* are held in enough copies and whose jokers are within the hand's jokers
\* has been emitted as a Meld of exactly those combos.
C2_MeldsComplete ==
    gen.pc = "done" =>
        \A S \in [1..gen.num_sets -> Range(iter_sets(h0))] :
        \A R \in [1..gen.num_runs -> Range(iter_runs(h0))] :
            Qualifies(h0, Concat(S) \o Concat(R)) =>
                \E i \in DOMAIN emitted :
                    SameCombos(emitted[i].sets, S) /\ SameCombos(emitted[i].runs, R)

C2_Witness ==
    /\ gen.pc = "done"
    /\ gen.num_sets = 1
    /\ gen.num_runs = 1
    /\ Len(emitted) >= 2
    /\ \E i \in DOMAIN emitted :
          Range(Concat(emitted[i].sets)) \cap Range(Concat(emitted[i].runs)) # {}
    /\ \E i \in DOMAIN emitted : NumJokers(Meld_cards(emitted[i])) = 1

\* C3: the stream of iter_melds holds no two Melds that are equal, that is,
\* whose cards, sets first and runs after, are the same sequence.
C3_NoEqualMelds ==
    \A i, j \in DOMAIN emitted :
        Meld_cards(emitted[i]) = Meld_cards(emitted[j]) => i = j

\* C7: whenever iter_melds hands control back to its consumer, at a Meld
\* and at exhaustion, the hand is as it was when the enumeration started.
C7_HandRestoredAtYield ==
    gen.pc \in {"sets", "runs", "both", "done"} => hand = h0

\* C27: in every Meld emitted by iter_melds each natural card appears at
\* most as many times as the hand holds it, so that a joker of the hand is
\* never laid down as a natural card.
C27_NaturalsWithinHand ==
    \A i \in DOMAIN emitted :
        \A c \in Range(Meld_cards(emitted[i])) :
            ~is_joker(c) => Count(Meld_cards(emitted[i]), c) <= card_count(h0, c)

(***************************************************************************)
(* Hands built from a list of cards, and the moves onto melds on the table *)
(* (generation.py): iter_adds, extend_from, iter_extends and               *)
(* iter_updates_multi.                                                     *)
(***************************************************************************)
RECURSIVE put_cards(_, _)
put_cards(h, cards) ==
    IF cards = <<>> THEN h ELSE put_cards(put_card(h, Head(cards)), Tail(cards))

\* IndexedHand(cards) / Hand(cards): fresh indices, a fresh count table, no
\* jokers, stack [None]; then the loop "for card in self.cards" runs over
\* the keys of the count table just created, of which there is none, and
\* the constructor ends with commit().  The argument is not read.
IndexedHand_new(cards) ==
    LET self == [IndexedHand_init EXCEPT !.stack = <<None>>]
        self_cards == <<>>
    IN  commit(put_cards(self, self_cards))

\* Set.rank
Set_rank(set_) == Card_rank(set_[1])

\* mutant: the joker slots of an Add become natural Spade cards
iter_adds_natural(h, set_) ==
    LET adds(combs) ==
            [k \in 1..Len(combs) |->
                [n \in 1..Len(combs[k]) |->
                    Card_of(Set_rank(set_),
                            IF combs[k][n] # None THEN combs[k][n] ELSE SPADE, FALSE)]]
    IN  <<(<<>>)>> \o adds(sets_from_colors(Setdex_iter(h.setdexen[Set_rank(set_)]),
                                           h.jokers, 1))

\* iter_adds(hand, set_): the empty Add, then one Add for every combination
\* of sets_from_colors(hand.setdexen[set_.rank], hand.jokers, min_size=1)
iter_adds(h, set_) ==
    LET adds(combs) ==
            [k \in 1..Len(combs) |->
                [n \in 1..Len(combs[k]) |->
                    IF combs[k][n] # None
                    THEN Card_of(Set_rank(set_), combs[k][n], FALSE)
                    ELSE Card_of(Set_rank(set_), SPADE, TRUE)]]
    IN  <<(<<>>)>> \o adds(sets_from_colors(Setdex_iter(h.setdexen[Set_rank(set_)]),
                                           h.jokers, 1))

\* Run.color
Run_color(run) == Card_color(run[1])

\* Card.dematerialized
dematerialized(card) == IF is_joker(card) THEN Card_joker ELSE card

\* IndexedHand.iter_color
iter_color(h, color) ==
    Concat([i \in 1..(Rank_MAX + 1) |->
              Repeat(Card_of(i - 1, color, FALSE), h.rundexen[color][i - 1])])

Extend(run, left, right) == [run |-> run, left |-> left, right |-> right]

\* mutant: extend_from that does not compare the overlap with the run
extend_from_unchecked(run1, run2) ==
    LET my_cards == run1
        popped == CHOOSE n \in 0..Len(run2) :
                      /\ \A i \in 1..n : run2[i] < my_cards[1]
                      /\ n = Len(run2) \/ ~(run2[n + 1] < my_cards[1])
        left == SubSeq(run2, 1, popped)
        other_cards == SubSeq(run2, popped + 1, Len(run2))
        right == SubSeq(other_cards, Len(my_cards) + 1, Len(other_cards))
    IN  IF Run_color(run1) # Run_color(run2) THEN [ok |-> FALSE, extend |-> <<>>]
        ELSE IF left = <<>> /\ right = <<>> THEN [ok |-> FALSE, extend |-> <<>>]
        ELSE [ok |-> TRUE, extend |-> Extend(run1, left, right)]

\* extend_from(run1, run2); ok = FALSE is ValueError.  Cards compare by
\* their encodings (Card.__lt__, Card.__eq__).
extend_from(run1, run2) ==
    LET my_cards == run1
        popped == CHOOSE n \in 0..Len(run2) :
                      /\ \A i \in 1..n : run2[i] < my_cards[1]
                      /\ n = Len(run2) \/ ~(run2[n + 1] < my_cards[1])
        left == SubSeq(run2, 1, popped)
        other_cards == SubSeq(run2, popped + 1, Len(run2))
        other_cards_overlap == SubSeq(other_cards, 1, Min2(Len(my_cards), Len(other_cards)))
        right == SubSeq(other_cards, Len(my_cards) + 1, Len(other_cards))
    IN  IF Run_color(run1) # Run_color(run2) THEN [ok |-> FALSE, extend |-> <<>>]
        ELSE IF other_cards_overlap # my_cards THEN [ok |-> FALSE, extend |-> <<>>]
        ELSE IF left = <<>> /\ right = <<>> THEN [ok |-> FALSE, extend |-> <<>>]
        ELSE [ok |-> TRUE, extend |-> Extend(run1, left, right)]

\* iter_extends(hand, run) with run_iterator = iter_runs
iter_extends(h, run) ==
    LET new_hand ==
            put_cards(put_cards(IndexedHand_new(iter_color(h, Run_color(run))),
                                [i \in 1..Len(run) |-> dematerialized(run[i])]),
                      Repeat(Card_joker, h.jokers))
        extends(tries) ==
            [i \in 1..Len(tries) |-> tries[i].extend]
        kept(runs) ==
            extends(SelectSeq([i \in 1..Len(runs) |-> extend_from(run, runs[i])],
                              LAMBDA t : t.ok))
    IN  <<Extend(run, <<>>, <<>>)>> \o kept(iter_runs(new_hand))

\* one entry (pid, combo_id, combo) of the mutation candidates; kind tells
\* an Add from an Extend (isinstance)
mutation(pid, id, kind, combo) == [pid |-> pid, id |-> id, kind |-> kind, combo |-> combo]

\* the cards an Add or an Extend iterates over
combo_cards(m) == IF m.kind = "add" THEN m.combo ELSE m.combo.left \o m.combo.right

\* mutations = adds + extends: the non-empty Adds of every set of every
\* meld, then the non-empty Extends of every run of every meld, indexed
\* from 0 as enumerate does.  melds is the sequence of (pid, meld) items.
mutations(h, melds) ==
    LET tagged(pid, id, kind, combos) ==
            [n \in 1..Len(combos) |-> mutation(pid, id, kind, combos[n])]
        adds_of(pid, sets) ==
            Concat([k \in 1..Len(sets) |->
                tagged(pid, k - 1, "add",
                       SelectSeq(iter_adds(h, sets[k]), LAMBDA add_ : Len(add_) > 0))])
        extends_of(pid, runs) ==
            Concat([k \in 1..Len(runs) |->
                tagged(pid, k - 1, "extend",
                       SelectSeq(iter_extends(h, runs[k]),
                                 LAMBDA extend : Len(extend.left) + Len(extend.right) > 0))])
    IN  Concat([m \in 1..Len(melds) |-> adds_of(melds[m].pid, melds[m].meld.sets)])
        \o Concat([m \in 1..Len(melds) |-> extends_of(melds[m].pid, melds[m].meld.runs)])

\* mutant: only the Adds of a combination are tried on the hand
combos_only_adds(combination) ==
    LET adds == SelectSeq(combination, LAMBDA m : m.kind = "add")
    IN  [i \in 1..Len(adds) |-> combo_cards(adds[i])]

\* combos_only = [combo for pid, combo_id, combo in combination]
combos_only(combination) ==
    [i \in 1..Len(combination) |-> combo_cards(combination[i])]

\* the dictionary yielded for a combination: updates[pid][combo_id] = combo
\* in the order of the combination (a later entry under the same pid and
\* combo_id replaces an earlier one), then one MeldUpdate per pid with the
\* Adds among its entries as adds and the Extends as extends
updates_of(combination) ==
    LET pids == {combination[i].pid : i \in DOMAIN combination}
        ids(pid) == {combination[i].id : i \in {n \in DOMAIN combination :
                                                   combination[n].pid = pid}}
        entry(pid, id) ==
            combination[CHOOSE i \in DOMAIN combination :
                /\ combination[i].pid = pid /\ combination[i].id = id
                /\ \A n \in DOMAIN combination :
                      (combination[n].pid = pid /\ combination[n].id = id) => n <= i]
    IN  [pid \in pids |->
            [adds |-> [id \in {x \in ids(pid) : entry(pid, x).kind = "add"} |->
                          entry(pid, id).combo],
             extends |-> [id \in {x \in ids(pid) : entry(pid, x).kind = "extend"} |->
                          entry(pid, id).combo]]]

\* the loop over the combinations lo..hi: take_committed on each, and the
\* dictionaries yielded for those that can be taken
RECURSIVE try_all(_, _, _, _)
try_all(h, combs, lo, hi) ==
    LET one(r) == [h |-> r.h,
                   res |-> IF r.ok THEN <<updates_of(combs[lo])>> ELSE <<>>]
        mid == (lo + hi) \div 2
        rest(left, right) == [res |-> left.res \o right.res, h |-> right.h]
        after(first) == rest(first, try_all(first.h, combs, mid + 1, hi))
    IN  IF lo > hi THEN [h |-> h, res |-> <<>>]
        ELSE IF lo = hi THEN one(take_committed(h, combos_only(combs[lo]), FALSE))
        ELSE after(try_all(h, combs, lo, mid))

\* iter_updates_multi(hand, melds) with run_iterator = iter_runs: the hand
\* after the call and the dictionaries yielded
iter_updates_multi(h, melds) ==
    LET by_size(muts) ==
            Concat([n \in 1..(Len(muts) + 1) |-> combinations(muts, n - 1)])
        run(combs) == try_all(h, combs, 1, Len(combs))
    IN  run(by_size(mutations(h, melds)))

\* Set.update(add): refused unless every card has the rank of the set
Set_update(set_, add_) ==
    LET cards == set_ \o add_
    IN  [ok |-> (\A i \in DOMAIN add_ : Card_rank(add_[i]) = Set_rank(set_))
                /\ Set_valid(cards),
         combo |-> sorted_cards(cards)]

\* Run.update(extend) = Run(extend.left + list(self) + extend.right)
Run_update(run, extend) ==
    LET cards == extend.left \o run \o extend.right
    IN  [ok |-> Run_valid(cards), combo |-> cards]

\* Meld.update(update): meld_sets[add_id] and meld_runs[extend_id] are
\* replaced; an id outside the list or a refused combo raises
Meld_update(meld, update) ==
    LET ids_ok == /\ DOMAIN update.adds \subseteq 0..(Len(meld.sets) - 1)
                  /\ DOMAIN update.extends \subseteq 0..(Len(meld.runs) - 1)
        new_set(k) == IF (k - 1) \in DOMAIN update.adds
                      THEN Set_update(meld.sets[k], update.adds[k - 1])
                      ELSE [ok |-> TRUE, combo |-> meld.sets[k]]
        new_run(k) == IF (k - 1) \in DOMAIN update.extends
                      THEN Run_update(meld.runs[k], update.extends[k - 1])
                      ELSE [ok |-> TRUE, combo |-> meld.runs[k]]
    IN  IF ~ids_ok THEN [ok |-> FALSE, meld |-> meld]
        ELSE [ok |-> /\ \A k \in DOMAIN meld.sets : new_set(k).ok
                     /\ \A k \in DOMAIN meld.runs : new_run(k).ok,
              meld |-> Meld([k \in DOMAIN meld.sets |-> new_set(k).combo],
                            [k \in DOMAIN meld.runs |-> new_run(k).combo])]

(***************************************************************************)
(* Specification SpecUpdates: a hand is built from a list or card by card, *)
(* and the moves onto the melds of a table are enumerated for it.          *)
(*   pool  the argument of the last call (a list of cards, a Run, a Set,   *)
(*         the melds of the table)                                         *)
(*   out   the call and what it returned                                   *)
(***************************************************************************)
UpdMaxCopies == 2
UpdMaxJokers == 2
UpdMaxList == 2
UpdMaxMulti == 2

UpdCards == {Card_of(2, SPADE, FALSE), Card_of(2, HEART, FALSE), Card_of(7, HEART, FALSE)}

\* the Sets lying on the table
TableSets ==
    {Set_of(2, <<CLUB, HEART, DIAMOND>>), Set_of(7, <<None, CLUB, DIAMOND>>)}

\* the Runs lying on the table
TableRuns ==
    {Run_of(HEART, 3, <<0, 0, 0, 0>>), Run_of(HEART, 3, <<1, 0, 0, 0>>),
     Run_of(HEART, 3, <<0, 0, 1, 0>>)}

\* the melds lying on the table, as (pid, meld) items: one owner with a Set
\* and a Run, one owner with two Sets and a Run, two owners
Tables ==
    LET twos == Set_of(2, <<CLUB, HEART, DIAMOND>>)
        sevens == Set_of(7, <<None, CLUB, DIAMOND>>)
        hearts == Run_of(HEART, 3, <<0, 0, 0, 0>>)
    IN  {<<[pid |-> 0, meld |-> Meld(<<twos>>, <<hearts>>)]>>,
         <<[pid |-> 0, meld |-> Meld(<<sevens, twos>>, <<hearts>>)]>>,
         <<[pid |-> 0, meld |-> Meld(<<twos>>, <<>>)],
           [pid |-> 1, meld |-> Meld(<<>>, <<hearts>>)]>>}

\* the lists of cards a hand is built from
CardLists == UNION {[1..n -> UpdCards \cup {Card_joker}] : n \in 0..UpdMaxList}

InitUpdates ==
    /\ hand = IndexedHand_init
    /\ pool = <<>>
    /\ out = NoOut
    /\ base = IndexedHand_init
    /\ txn = NoTxn
    /\ marks = <<>>
    /\ last = NoCall
    /\ gen = NoGen
    /\ emitted = <<>>
    /\ h0 = IndexedHand_init

Construct(cards) ==
    /\ hand' = IndexedHand_new(cards)
    /\ pool' = cards
    /\ out' = [op |-> "new", res |-> <<>>]
    /\ UNCHANGED <<base, txn, marks, last, gen, emitted, h0>>

UpdPut(card) ==
    /\ IF card = Card_joker THEN hand.jokers < UpdMaxJokers
       ELSE card_count(hand, card) < UpdMaxCopies
    /\ hand' = put_card(hand, card)
    /\ pool' = <<>>
    /\ out' = NoOut
    /\ UNCHANGED <<base, txn, marks, last, gen, emitted, h0>>

IterAdds(set_) ==
    /\ out.op = "none"
    /\ out' = [op |-> "iter_adds", res |-> iter_adds(hand, set_)]
    /\ pool' = set_
    /\ UNCHANGED <<hand, base, txn, marks, last, gen, emitted, h0>>

IterExtends(run) ==
    /\ out.op = "none"
    /\ out' = [op |-> "iter_extends", res |-> iter_extends(hand, run)]
    /\ pool' = run
    /\ UNCHANGED <<hand, base, txn, marks, last, gen, emitted, h0>>

IterUpdatesMulti(melds) ==
    /\ out.op = "none"
    /\ NumCards(hand) + hand.jokers <= UpdMaxMulti
    /\ \E r \in {iter_updates_multi(hand, melds)} :
          /\ hand' = r.h
          /\ out' = [op |-> "iter_updates_multi", res |-> r.res]
    /\ pool' = melds
    /\ UNCHANGED <<base, txn, marks, last, gen, emitted, h0>>

NextUpdates ==
    \/ \E melds \in Tables : IterUpdatesMulti(melds)
    \/ \E run \in TableRuns : IterExtends(run)
    \/ \E cards \in CardLists : Construct(cards)
    \/ \E card \in UpdCards \cup {Card_joker} : UpdPut(card)
    \/ \E set_ \in TableSets : IterAdds(set_)

SpecUpdates == InitUpdates /\ [][NextUpdates]_vars

(***************************************************************************)
(* Claims on SpecUpdates                                                   *)
(***************************************************************************)
\* C15: a hand constructed from a list of cards holds exactly that
\* multiset: every card's count is its multiplicity in the list, the joker
\* count is the number of jokers in the list, and both indices agree with
\* the counts.
C15_ConstructedHandHoldsCards ==
    out.op = "new" =>
        /\ \A card \in UpdCards : card_count(hand, card) = Count(pool, card)
        /\ hand.jokers = Count(pool, Card_joker)
        /\ IndexMatches(hand)

\* the non-empty multisets of cards of a rank drawn from the held cards of
\* that rank and the jokers, jokers as Spade jokers of the rank
DeclAdds(h, rank) ==
    UNION {
        {SetCards(rank, k, j) :
            k \in {f \in [Colors -> 0..MostHeld(h, rank)] :
                     /\ \A c \in Colors : f[c] <= card_count(h, Card_of(rank, c, FALSE))
                     /\ f[CLUB] + f[SPADE] + f[HEART] + f[DIAMOND] + j >= 1}}
        : j \in 0..h.jokers}

Stretch(color, lo, hi, J) ==
    [i \in 1..(hi - lo + 1) |-> Card_of(lo + i - 1, color, (lo + i - 1) \in J)]

\* every (left, right), not both empty, that makes left + run + right a Run
\* inside the ranks with at most 3 jokers in all, the added natural cards
\* held in the run's suit and the added jokers within the hand's jokers
DeclExtends(h, run) ==
    LET color == Run_color(run)
        start == Card_rank(run[1])
        end   == Card_rank(Last(run))
    IN  UNION {UNION {
            {[left |-> Stretch(color, lo, start - 1, J),
              right |-> Stretch(color, end + 1, hi, J)] :
                J \in {K \in SUBSET ((lo..(start - 1)) \cup ((end + 1)..hi)) :
                          /\ Cardinality(K) <= h.jokers
                          /\ Cardinality(K) + NumJokers(run) <= MAX_RUN_JOKERS
                          /\ \A r \in ((lo..(start - 1)) \cup ((end + 1)..hi)) \ K :
                                card_count(h, Card_of(r, color, FALSE)) >= 1}}
            : hi \in {x \in end..Rank_MAX : x - end + start - lo >= 1}}
            : lo \in Rank_MIN..start}

\* C16: iter_extends(hand, run) emits every Extend (left, right), not both
\* empty, for which left + run + right is a valid Run with at most 3 jokers
\* in all, whose added natural cards are held in the run's suit and whose
\* added jokers are at most hand.jokers: on the left, on the right and on
\* both ends, natural cards, jokers or both.
C16_IterExtendsComplete ==
    out.op = "iter_extends" =>
        \A d \in DeclExtends(hand, pool) :
            \E i \in DOMAIN out.res :
                out.res[i].left = d.left /\ out.res[i].right = d.right

\* C17: iter_extends(hand, run) emits the empty Extend once, as its first
\* item; every other Extend is non-empty and distinct, left + run + right
\* is a valid Run that holds run unchanged, the added natural cards are
\* held in the hand and the added jokers are at most hand.jokers.
C17_IterExtendsSound ==
    out.op = "iter_extends" =>
        /\ Len(out.res) >= 1
        /\ out.res[1] = Extend(pool, <<>>, <<>>)
        /\ NoDup(out.res)
        /\ \A i \in 2..Len(out.res) :
              LET e == out.res[i] IN
              /\ e.left \o e.right # <<>>
              /\ e.run = pool
              /\ Run_valid(e.left \o pool \o e.right)
              /\ \A c \in Range(e.left \o e.right) :
                    ~is_joker(c) => Count(e.left \o e.right, c) <= card_count(hand, c)
              /\ NumJokers(e.left \o e.right) <= hand.jokers

\* a Run that starts with a joker is extended on the left and by two cards
\* on the right
C17_Witness ==
    /\ out.op = "iter_extends"
    /\ is_joker(pool[1])
    /\ hand.jokers = 2
    /\ \E i \in DOMAIN out.res : out.res[i].left # <<>> /\ out.res[i].right # <<>>
    /\ \E i \in DOMAIN out.res : Len(out.res[i].right) = 2

\* the cards of every Add and Extend that a dictionary of MeldUpdates
\* holds for the sets and runs of the melds
update_cards(updates, melds) ==
    LET of_meld(pid, meld) ==
            Concat([k \in DOMAIN meld.sets |->
                IF (k - 1) \in DOMAIN updates[pid].adds
                THEN updates[pid].adds[k - 1] ELSE <<>>])
            \o Concat([k \in DOMAIN meld.runs |->
                IF (k - 1) \in DOMAIN updates[pid].extends
                THEN updates[pid].extends[k - 1].left \o updates[pid].extends[k - 1].right
                ELSE <<>>])
    IN  Concat([m \in DOMAIN melds |->
            IF melds[m].pid \in DOMAIN updates
            THEN of_meld(melds[m].pid, melds[m].meld) ELSE <<>>])

\* the cards can be taken from the hand together: the jokers among them
\* and the natural cards the hand lacks are covered by the hand's jokers
Takeable(h, cards) == NumJokers(cards) + Shortfall(h, cards) <= h.jokers

\* a dictionary of MeldUpdates can be played on the melds from the hand
Playable(h, melds, updates) ==
    /\ DOMAIN updates \subseteq {melds[m].pid : m \in DOMAIN melds}
    /\ \A m \in DOMAIN melds :
          melds[m].pid \in DOMAIN updates =>
              Meld_update(melds[m].meld, updates[melds[m].pid]).ok
    /\ Takeable(h, update_cards(updates, melds))

Selected(h, muts, sel) ==
    /\ \A a, b \in sel :
          (muts[a].pid = muts[b].pid /\ muts[a].kind = muts[b].kind
             /\ muts[a].id = muts[b].id) => a = b
    /\ Takeable(h, Concat([n \in DOMAIN muts |->
                              IF n \in sel THEN combo_cards(muts[n]) ELSE <<>>]))

\* the dictionary holds the candidate under its index in its owner's update
Holds(updates, m) ==
    /\ m.pid \in DOMAIN updates
    /\ IF m.kind = "add"
       THEN m.id \in DOMAIN updates[m.pid].adds /\ updates[m.pid].adds[m.id] = m.combo
       ELSE m.id \in DOMAIN updates[m.pid].extends
            /\ updates[m.pid].extends[m.id] = m.combo

\* C20: for every selection of at most one non-empty Add per set and one
\* non-empty Extend per run whose cards can be taken from the hand together,
\* iter_updates_multi emits a dictionary that holds every selected Add under
\* its set index and every selected Extend under its run index.
C20_UpdatesComplete ==
    out.op = "iter_updates_multi" =>
        LET muts == mutations(hand, pool)
        IN  \A sel \in SUBSET DOMAIN muts :
                Selected(hand, muts, sel) =>
                    \E i \in DOMAIN out.res :
                        \A n \in sel : Holds(out.res[i], muts[n])

\* C21: the dictionaries emitted by iter_updates_multi are pairwise
\* different: no two positions of the stream hold the same owners with the
\* same adds and the same extends.
C21_UpdatesDistinct ==
    out.op = "iter_updates_multi" =>
        \A i, k \in DOMAIN out.res : out.res[i] = out.res[k] => i = k

(***************************************************************************)
(* Specification SpecLuts: threads calling maybe_precompute (generation.py *)
(* 296-349).  There is no lock in the code; a step is one store into a     *)
(* module-level dictionary, one file written or read, or one test.  In     *)
(* this specification pool holds the module-level state (the dictionaries  *)
(* _RUN_LUT and _SET_LUT, the two files, and the history flag ready: some  *)
(* call has returned with both tables populated) and marks holds one       *)
(* record per thread.                                                      *)
(***************************************************************************)
LutThreads == 2
LutMaxJokers == 1
LutMaxKey == 1

\* what precompute_luts stores: for every joker count the computed table
precomputed(kind) ==
    [j \in 0..LutMaxJokers |-> [key \in 0..LutMaxKey |->
        IF kind = "set" THEN SET_LUT(j, key) ELSE RUN_LUT(j, key)]]

NoThread == [pc |-> "idle", kind |-> "set", src |-> <<>>, j |-> 0, k |-> 0,
             then |-> "idle"]

\* both tables hold every joker count and every key
Populated(luts) ==
    \A kind \in {"RUN_LUT", "SET_LUT"} :
        /\ DOMAIN luts[kind] = 0..LutMaxJokers
        /\ \A j \in 0..LutMaxJokers : DOMAIN luts[kind][j] = 0..LutMaxKey

InitLuts ==
    /\ pool = [RUN_LUT |-> <<>>, SET_LUT |-> <<>>,
               RUN_LUT_FILE |-> [exists |-> FALSE, data |-> <<>>],
               SET_LUT_FILE |-> [exists |-> FALSE, data |-> <<>>], ready |-> FALSE]
    /\ marks = [t \in 1..LutThreads |-> NoThread]
    /\ hand = IndexedHand_init
    /\ out = NoOut
    /\ base = IndexedHand_init
    /\ txn = NoTxn
    /\ last = NoCall
    /\ gen = NoGen
    /\ emitted = <<>>
    /\ h0 = IndexedHand_init

\* return from maybe_precompute
returned(t) ==
    /\ marks' = [marks EXCEPT ![t] = [NoThread EXCEPT !.pc = "returned"]]
    /\ pool' = [pool EXCEPT !.ready = @ \/ Populated(pool)]

\* the loops that fill one table from src: _LUT[j] = {} and then
\* _LUT[j][key] = value for every key, for every j of src
fill(t, kind, src, then) ==
    marks' = [marks EXCEPT ![t] = [pc |-> "fill", kind |-> kind, src |-> src,
                                   j |-> 0, k |-> 0, then |-> then]]

\* maybe_precompute: if not _RUN_LUT or not _SET_LUT
Test(t) ==
    /\ marks[t].pc = "idle"
    /\ IF DOMAIN pool.RUN_LUT = {} \/ DOMAIN pool.SET_LUT = {}
       THEN marks' = [marks EXCEPT ![t].pc = "exists"] /\ pool' = pool
       ELSE returned(t)
    /\ UNCHANGED <<hand, base, txn, last, gen, emitted, h0, out>>

\* os.path.exists(_RUN_LUT_FILE): load_luts() or precompute_luts()
Exists(t) ==
    /\ marks[t].pc = "exists"
    /\ IF pool.RUN_LUT_FILE.exists
       THEN fill(t, "run", pool.RUN_LUT_FILE.data, "load_sets")
       ELSE fill(t, "set", precomputed("set"), "precompute_runs")
    /\ UNCHANGED <<hand, base, txn, last, pool, gen, emitted, h0, out>>

\* one store of precompute_luts or load_luts: j counts the joker counts
\* that are finished, k is 0 before _LUT[j] = {} and otherwise the number
\* of the next key of src[j]; the keys of a dictionary come in ascending
\* order, the order they were inserted in
Store(t) ==
    LET me == marks[t]
        setitem(d, key, value) == (key :> value) @@ d
        nth_key(d, n) ==
            CHOOSE x \in DOMAIN d : Cardinality({y \in DOMAIN d : y < x}) = n - 1
        name == IF me.kind = "set" THEN "SET_LUT" ELSE "RUN_LUT"
        table == pool[name]
        done == me.j >= Cardinality(DOMAIN me.src)
        jokers == nth_key(me.src, me.j + 1)
        keys == me.src[jokers]
        last_key == me.k >= Cardinality(DOMAIN keys)
        key == nth_key(keys, me.k)
    IN  /\ me.pc = "fill"
        /\ IF done
           THEN /\ marks' = [marks EXCEPT ![t].pc = me.then]
                /\ pool' = pool
           ELSE IF me.k = 0
           THEN /\ pool' = [pool EXCEPT ![name] = setitem(table, jokers, <<>>)]
                /\ marks' = [marks EXCEPT ![t].k = IF last_key THEN 0 ELSE 1,
                                           ![t].j = IF last_key THEN me.j + 1 ELSE me.j]
           ELSE /\ pool' = [pool EXCEPT ![name] =
                               setitem(table, jokers,
                                       setitem(table[jokers], key, keys[key]))]
                /\ marks' = [marks EXCEPT ![t].k = IF last_key THEN 0 ELSE me.k + 1,
                                           ![t].j = IF last_key THEN me.j + 1 ELSE me.j]
        /\ UNCHANGED <<hand, base, txn, last, gen, emitted, h0, out>>

\* precompute_luts: the second loop, over the run tables
PrecomputeRuns(t) ==
    /\ marks[t].pc = "precompute_runs"
    /\ fill(t, "run", precomputed("run"), "save_runs")
    /\ UNCHANGED <<hand, base, txn, last, pool, gen, emitted, h0, out>>

\* save_luts: json.dumps(_RUN_LUT) into _RUN_LUT_FILE, then
\* json.dumps(_SET_LUT) into _SET_LUT_FILE, and the return
SaveRuns(t) ==
    /\ marks[t].pc = "save_runs"
    /\ pool' = [pool EXCEPT !.RUN_LUT_FILE = [exists |-> TRUE, data |-> pool.RUN_LUT]]
    /\ marks' = [marks EXCEPT ![t].pc = "save_sets"]
    /\ UNCHANGED <<hand, base, txn, last, gen, emitted, h0, out>>

SaveSets(t) ==
    /\ marks[t].pc = "save_sets"
    /\ pool' = [pool EXCEPT !.SET_LUT_FILE = [exists |-> TRUE, data |-> pool.SET_LUT]]
    /\ marks' = [marks EXCEPT ![t].pc = "return"]
    /\ UNCHANGED <<hand, base, txn, last, gen, emitted, h0, out>>

\* load_luts: the second file; opening a file that is not there raises
LoadSets(t) ==
    /\ marks[t].pc = "load_sets"
    /\ IF pool.SET_LUT_FILE.exists
       THEN fill(t, "set", pool.SET_LUT_FILE.data, "return")
       ELSE marks' = [marks EXCEPT ![t] = [NoThread EXCEPT !.pc = "raised"]]
    /\ UNCHANGED <<hand, base, txn, last, pool, gen, emitted, h0, out>>

Return(t) ==
    /\ marks[t].pc = "return"
    /\ returned(t)
    /\ UNCHANGED <<hand, base, txn, last, gen, emitted, h0, out>>

\* the thread calls maybe_precompute again (iter_runs_lut and iter_sets_lut
\* call it every time)
Again(t) ==
    /\ marks[t].pc \in {"returned", "raised"}
    /\ marks' = [marks EXCEPT ![t] = NoThread]
    /\ UNCHANGED <<hand, base, txn, last, pool, gen, emitted, h0, out>>

NextLuts ==
    \E t \in 1..LutThreads :
        \/ Test(t)
        \/ Exists(t)
        \/ Store(t)
        \/ PrecomputeRuns(t)
        \/ SaveRuns(t)
        \/ SaveSets(t)
        \/ LoadSets(t)
        \/ Return(t)
        \/ Again(t)

SpecLuts == InitLuts /\ [][NextLuts]_vars

(***************************************************************************)
(* Claims on SpecLuts                                                      *)
(***************************************************************************)

\* C22: once a call of maybe_precompute has returned with both tables
\* populated, no step of any thread stores into the tables again: every
\* entry a reader can see stays as it is.
C22_TablesWrittenOnce ==
    [][pool.ready => (pool'.RUN_LUT = pool.RUN_LUT /\ pool'.SET_LUT = pool.SET_LUT)]_vars

(***************************************************************************)
(* Specification SpecCombos: the operations of Card, Run, Set and Setdex   *)
(* (common.py, generation.py) applied to inputs drawn from bounded sets.   *)
(* pool holds the arguments of the last call, out its result and gen the   *)
(* packed value of a Setdex.                                               *)
(***************************************************************************)
ComboMaxLen == 4

\* mutant: the comparison leaves the joker bit out
Card_lt_masked(a, b) == masked_value(a) < masked_value(b)

\* Card.__lt__: self.value < other.value
Card_lt(a, b) == a < b

\* Card.__eq__: self.value == other.value
Card_eq(a, b) == a = b

\* mutant: Run.__init__ without the loop over the ranks
Run_new_unordered(cards) ==
    IF Len(cards) < Run_MIN \/ \E i \in DOMAIN cards : Card_color(cards[i]) # Card_color(cards[1])
    THEN [ok |-> FALSE, error |-> "ValueError", combo |-> None]
    ELSE [ok |-> TRUE, error |-> "none", combo |-> cards]

\* Run(cards): the checks of Run.__init__ in their order; cards[0].rank +
\* index is a TypeError when the first card is an unmaterialized joker
Run_new(cards) ==
    IF Len(cards) < Run_MIN \/ \E i \in DOMAIN cards : Card_color(cards[i]) # Card_color(cards[1])
    THEN [ok |-> FALSE, error |-> "ValueError", combo |-> None]
    ELSE IF Card_rank(cards[1]) = None
    THEN [ok |-> FALSE, error |-> "TypeError", combo |-> None]
    ELSE IF \E i \in DOMAIN cards : Card_rank(cards[i]) # Card_rank(cards[1]) + i - 1
    THEN [ok |-> FALSE, error |-> "ValueError", combo |-> None]
    ELSE [ok |-> TRUE, error |-> "none", combo |-> cards]

\* Set(cards): the cards are stored sorted; the checks of Set.__init__
Set_new(cards) ==
    IF Len(cards) < Set_MIN \/ \E i \in DOMAIN cards : Card_rank(cards[i]) # Card_rank(cards[1])
    THEN [ok |-> FALSE, error |-> "ValueError", combo |-> None]
    ELSE [ok |-> TRUE, error |-> "none", combo |-> sorted_cards(cards)]

\* Run.next_left and Run.next_right: the natural card next to the run, None
\* at the end of the ranks
Run_next_left(run) ==
    IF Card_rank(run[1]) > Rank_MIN
    THEN Card_of(Card_rank(run[1]) - 1, Card_color(run[1]), FALSE) ELSE None

Run_next_right(run) ==
    IF Card_rank(run[Len(run)]) < Rank_MAX
    THEN Card_of(Card_rank(run[Len(run)]) + 1, Card_color(run[Len(run)]), FALSE) ELSE None

\* mutant: the card is compared as it is, joker flag included
as_common_kept(card) == card

\* Card.as_common() = Card.of(self.rank, self.color); the caller sees the
\* validation error of an unmaterialized joker (rank None)
as_common(card) == Card_of(Card_rank(card), Card_color(card), FALSE)

\* Run.extend(card); self is the run after the call
Run_extend(run, card) ==
    LET raised(error) == [ok |-> FALSE, error |-> error, combo |-> None, self |-> run]
        built(r) == [ok |-> r.ok, error |-> r.error, combo |-> r.combo, self |-> run]
    IN  IF Card_rank(card) = None THEN raised("TypeError")
        ELSE IF as_common(card) = Run_next_left(run) THEN built(Run_new(<<card>> \o run))
        ELSE IF as_common(card) = Run_next_right(run) THEN built(Run_new(run \o <<card>>))
        ELSE raised("InvalidExtend")

\* every card: the natural cards, their materialized jokers and the joker
AllCards ==
    {Card_of(rank, color, joker) : rank \in Rank_MIN..Rank_MAX, color \in Colors,
                                   joker \in BOOLEAN} \cup {Card_joker}

\* the runs that are extended: from the 2, with a joker at either end, up
\* to the Ace
ExtendRuns ==
    {Run_of(CLUB, 2, <<0, 0, 0, 0>>), Run_of(CLUB, 3, <<1, 0, 0, 0>>),
     Run_of(CLUB, 3, <<0, 0, 0, 1>>), Run_of(CLUB, 11, <<0, 0, 0, 0>>)}

\* the cards the calls are made with: natural cards, materialized jokers
\* and the unmaterialized joker
ComboCards ==
    {Card_of(2, CLUB, FALSE), Card_of(3, CLUB, FALSE), Card_of(4, CLUB, FALSE),
     Card_of(5, CLUB, FALSE), Card_of(2, DIAMOND, FALSE), Card_of(3, SPADE, FALSE),
     Card_of(4, CLUB, TRUE), Card_of(2, SPADE, TRUE), Card_joker}

InitCombos ==
    /\ pool = <<>>
    /\ out = NoOut
    /\ gen = 0
    /\ hand = IndexedHand_init
    /\ base = IndexedHand_init
    /\ txn = NoTxn
    /\ marks = <<>>
    /\ last = NoCall
    /\ emitted = <<>>
    /\ h0 = IndexedHand_init

\* the argument list of the next call grows by one card
Draw(card) ==
    /\ out.op = "none"
    /\ Len(pool) < ComboMaxLen
    /\ pool' = Append(pool, card)
    /\ UNCHANGED <<hand, base, txn, marks, last, gen, emitted, h0, out>>

\* the result is dropped and a new argument list begun
Discard ==
    /\ out.op # "none"
    /\ pool' = <<>>
    /\ out' = NoOut
    /\ UNCHANGED <<hand, base, txn, marks, last, gen, emitted, h0>>

\* a < b, b < a, b < c, a < c and a == b for the cards a, b, c of pool
Compare ==
    /\ out.op = "none"
    /\ Len(pool) = 3
    /\ out' = [op |-> "lt",
               res |-> [ab |-> Card_lt(pool[1], pool[2]), ba |-> Card_lt(pool[2], pool[1]),
                        bc |-> Card_lt(pool[2], pool[3]), ac |-> Card_lt(pool[1], pool[3]),
                        eq |-> Card_eq(pool[1], pool[2])]]
    /\ UNCHANGED <<hand, base, txn, marks, last, pool, gen, emitted, h0>>

NewRun ==
    /\ out.op = "none"
    /\ out' = [op |-> "Run", res |-> Run_new(pool)]
    /\ UNCHANGED <<hand, base, txn, marks, last, pool, gen, emitted, h0>>

NewSet ==
    /\ out.op = "none"
    /\ out' = [op |-> "Set", res |-> Set_new(pool)]
    /\ UNCHANGED <<hand, base, txn, marks, last, pool, gen, emitted, h0>>

RunExtend(run, card) ==
    /\ out.op = "none"
    /\ pool = <<>>
    /\ pool' = <<run, card>>
    /\ out' = [op |-> "extend", res |-> Run_extend(run, card)]
    /\ UNCHANGED <<hand, base, txn, marks, last, gen, emitted, h0>>

NextCombos ==
    \/ \E card \in ComboCards : Draw(card)
    \/ \E run \in ExtendRuns, card \in AllCards : RunExtend(run, card)
    \/ Discard
    \/ Compare
    \/ NewRun
    \/ NewSet

SpecCombos == InitCombos /\ [][NextCombos]_vars

(***************************************************************************)
(* Claims on SpecCombos                                                    *)
(***************************************************************************)

\* C23 as stated: cards are totally ordered by their encoding and the joker
\* is below every natural card.
C23_JokerSmallest ==
    out.op = "lt" =>
        ((pool[1] = Card_joker /\ ~is_joker(pool[2])) => out.res.ab)

\* C23 amended: the comparison of the encodings is a total order (exactly
\* one of a < b, a == b, b < a holds; a < b and b < c give a < c), and under
\* it every natural card is below the joker and below every materialized
\* joker: the jokers are the largest cards.
C23_JokerLargest ==
    out.op = "lt" =>
        /\ (IF out.res.ab THEN 1 ELSE 0) + (IF out.res.ba THEN 1 ELSE 0)
              + (IF out.res.eq THEN 1 ELSE 0) = 1
        /\ out.res.eq <=> pool[1] = pool[2]
        /\ (out.res.ab /\ out.res.bc) => out.res.ac
        /\ (is_joker(pool[1]) /\ ~is_joker(pool[2])) => out.res.ba

\* C23 witness: the joker was compared with a natural card and a
\* materialized joker with a natural card of a higher rank and suit
C23_Witness ==
    /\ out.op = "lt"
    /\ pool = <<Card_joker, Card_of(2, DIAMOND, FALSE), Card_of(2, SPADE, TRUE)>>
    /\ out.res.ba
    /\ out.res.bc

\* C24: Run(cards) succeeds exactly when there are at least 4 cards, all
\* of one suit, each rank one above the rank before; Set(cards) succeeds
\* exactly when there are at least 3 cards whose rank is the same (the rank
\* of an unmaterialized joker is None); every other input raises an error
\* and gives no Run or Set, and a success gives the cards (sorted, for a
\* Set).
C24_CombosChecked ==
    LET cards == pool
        one_suit == \A i, k \in DOMAIN cards : Card_color(cards[i]) = Card_color(cards[k])
        ascending == /\ \A i \in DOMAIN cards : Card_rank(cards[i]) # None
                     /\ \A i \in 1..(Len(cards) - 1) :
                           Card_rank(cards[i + 1]) = Card_rank(cards[i]) + 1
        one_rank == \A i, k \in DOMAIN cards : Card_rank(cards[i]) = Card_rank(cards[k])
        rejected == ~out.res.ok /\ out.res.error # "none" /\ out.res.combo = None
    IN  /\ out.op = "Run" =>
              IF Len(cards) >= 4 /\ one_suit /\ ascending
              THEN out.res.ok /\ out.res.combo = cards
              ELSE rejected
        /\ out.op = "Set" =>
              IF Len(cards) >= 3 /\ one_rank
              THEN out.res.ok /\ SameCombos(out.res.combo, cards)
                   /\ \A i \in 1..(Len(cards) - 1) :
                         out.res.combo[i] <= out.res.combo[i + 1]
              ELSE rejected

\* C24 witness: a sequence of four cards of one suit with a repeated rank
\* was rejected
C24_Witness ==
    /\ out.op = "Run"
    /\ pool = <<Card_of(2, CLUB, FALSE), Card_of(3, CLUB, FALSE),
                Card_of(3, CLUB, FALSE), Card_of(4, CLUB, FALSE)>>
    /\ ~out.res.ok

\* the card has the suit of the run and the rank below its first card or
\* above its last card, whatever its joker flag
Neighbour(run, card, side) ==
    /\ Card_rank(card) # None
    /\ Card_color(card) = Card_color(run[1])
    /\ Card_rank(card) = IF side = "left" THEN Card_rank(run[1]) - 1
                          ELSE Card_rank(run[Len(run)]) + 1

\* C25 as stated: the card next to the run on the left is prepended, the
\* one on the right appended, and every other card raises InvalidExtend;
\* the run is as it was.
C25_ExtendOrInvalid ==
    out.op = "extend" =>
        /\ out.res.self = pool[1]
        /\ IF Neighbour(pool[1], pool[2], "left")
           THEN out.res.ok /\ out.res.combo = <<pool[2]>> \o pool[1]
           ELSE IF Neighbour(pool[1], pool[2], "right")
           THEN out.res.ok /\ out.res.combo = pool[1] \o <<pool[2]>>
           ELSE ~out.res.ok /\ out.res.error = "InvalidExtend"

\* C25 amended: as stated for every card that has a rank and a suit; the
\* unmaterialized joker raises an error as well, but the error of the rank
\* validation in as_common and not InvalidExtend.  No Run is returned on an
\* error and the run is as it was.
C25_ExtendChecked ==
    out.op = "extend" =>
        /\ out.res.self = pool[1]
        /\ ~out.res.ok => out.res.combo = None
        /\ IF pool[2] = Card_joker
           THEN ~out.res.ok /\ out.res.error \notin {"none", "InvalidExtend"}
           ELSE IF Neighbour(pool[1], pool[2], "left")
           THEN out.res.ok /\ out.res.combo = <<pool[2]>> \o pool[1]
                /\ Run_valid(out.res.combo)
           ELSE IF Neighbour(pool[1], pool[2], "right")
           THEN out.res.ok /\ out.res.combo = pool[1] \o <<pool[2]>>
                /\ Run_valid(out.res.combo)
           ELSE ~out.res.ok /\ out.res.error = "InvalidExtend"

\* C25 witness: a materialized joker was appended to a run
C25_Witness ==
    /\ out.op = "extend"
    /\ is_joker(pool[2])
    /\ out.res.ok
    /\ out.res.combo[Len(out.res.combo)] = pool[2]

(***************************************************************************)
(* Specification SpecDeck: a Deck used with and without `with deck:`       *)
(* (common.py 681-720).  pool is the Deck (cards and __saved_cards), gen    *)
(* the position of the caller (outside a block, inside, or inside with an  *)
(* exception on its way out of the block), and marks remembers the cards   *)
(* at entry and the cards as the calls of the block left them.  The field  *)
(* saved is <<>> for None and otherwise holds the copied list as its one   *)
(* element.                                                                *)
(***************************************************************************)
DeckMaxCards == 3

DeckCards == {Card_of(2, CLUB, FALSE), Card_of(3, HEART, FALSE), Card_joker}

\* Deck.pop(): the last card leaves; EmptyDeck on an empty deck
Deck_pop(d) ==
    IF Len(d.cards) = 0 THEN [ok |-> FALSE, d |-> d]
    ELSE [ok |-> TRUE, d |-> [d EXCEPT !.cards = SubSeq(d.cards, 1, Len(d.cards) - 1)]]

\* Deck.put(card): self.cards.insert(0, card)
Deck_put(d, card) == [d EXCEPT !.cards = <<card>> \o d.cards]

\* Deck.take(card): the first equal card is removed; InvalidTake if none
Deck_take(d, card) ==
    LET at == CHOOSE i \in DOMAIN d.cards :
                  d.cards[i] = card /\ \A k \in 1..(i - 1) : d.cards[k] # card
    IN  IF card \notin Range(d.cards) THEN [ok |-> FALSE, d |-> d]
        ELSE [ok |-> TRUE,
              d |-> [d EXCEPT !.cards = SubSeq(d.cards, 1, at - 1)
                                        \o SubSeq(d.cards, at + 1, Len(d.cards))]]

\* Deck.__enter__: refused by the assertion inside a transaction, else the
\* cards are copied
Deck_enter(d) ==
    IF d.saved # <<>> THEN [ok |-> FALSE, d |-> d]
    ELSE [ok |-> TRUE, d |-> [d EXCEPT !.saved = <<d.cards>>]]

\* mutant: the exit keeps the cards whatever happened
Deck_exit_kept(d, exc) == [d EXCEPT !.saved = <<>>]

\* Deck.__exit__: exc says whether an exception is leaving the block
Deck_exit(d, exc) ==
    IF exc THEN [cards |-> d.saved[1], saved |-> <<>>] ELSE [d EXCEPT !.saved = <<>>]

InitDeck ==
    /\ pool \in {[cards |-> cards, saved |-> <<>>] :
                    cards \in UNION {[1..n -> DeckCards] : n \in 0..2}}
    /\ gen = "outside"
    /\ marks = [entry |-> <<>>, made |-> <<>>]
    /\ out = NoOut
    /\ hand = IndexedHand_init
    /\ base = IndexedHand_init
    /\ txn = NoTxn
    /\ last = NoCall
    /\ emitted = <<>>
    /\ h0 = IndexedHand_init

\* a call of the block ended with d; failed: it raised, and the exception
\* is caught inside the block (caught) or leaves it
DeckCall(op, r, caught) ==
    /\ pool' = r.d
    /\ out' = [op |-> op, res |-> r.ok]
    /\ gen' = IF gen = "inside" /\ ~r.ok /\ ~caught THEN "raised" ELSE gen
    /\ marks' = [marks EXCEPT !.made = r.d.cards]
    /\ UNCHANGED <<hand, base, txn, last, emitted, h0>>

DeckPop(caught) ==
    /\ gen \in {"outside", "inside"}
    /\ DeckCall("pop", Deck_pop(pool), caught)

DeckPut(card) ==
    /\ gen \in {"outside", "inside"}
    /\ Len(pool.cards) < DeckMaxCards
    /\ DeckCall("put", [ok |-> TRUE, d |-> Deck_put(pool, card)], TRUE)

DeckTake(card, caught) ==
    /\ gen \in {"outside", "inside"}
    /\ DeckCall("take", Deck_take(pool, card), caught)

\* `with deck:` is entered; inside a block the assertion of a nested
\* `with deck:` raises like any other call
DeckEnter(caught) ==
    /\ gen \in {"outside", "inside"}
    /\ \E r \in {Deck_enter(pool)} :
          /\ pool' = r.d
          /\ out' = [op |-> "enter", res |-> r.ok]
          /\ gen' = IF r.ok THEN "inside" ELSE IF caught THEN gen ELSE "raised"
          /\ marks' = IF r.ok THEN [entry |-> pool.cards, made |-> pool.cards] ELSE marks
    /\ UNCHANGED <<hand, base, txn, last, emitted, h0>>

\* the block is left, at its end or by the exception
DeckExit ==
    /\ gen \in {"inside", "raised"}
    /\ pool' = Deck_exit(pool, gen = "raised")
    /\ out' = [op |-> "exit", res |-> gen = "raised"]
    /\ gen' = "outside"
    /\ UNCHANGED <<hand, base, txn, marks, last, emitted, h0>>

NextDeck ==
    \/ \E caught \in BOOLEAN : DeckPop(caught)
    \/ \E card \in DeckCards : DeckPut(card)
    \/ \E card \in DeckCards, caught \in BOOLEAN : DeckTake(card, caught)
    \/ \E caught \in BOOLEAN : DeckEnter(caught)
    \/ DeckExit

SpecDeck == InitDeck /\ [][NextDeck]_vars

(***************************************************************************)
(* Claims on SpecDeck                                                      *)
(***************************************************************************)

\* C26: after a block that an exception left, the cards of the deck are the
\* cards at entry; after a block that ended without one, they are the cards
\* as the pops, puts and takes of the block left them; and outside a block
\* no transaction is open, so that a new one can be entered.
C26_DeckTransaction ==
    /\ (out.op = "exit" /\ out.res) => pool.cards = marks.entry
    /\ (out.op = "exit" /\ ~out.res) => pool.cards = marks.made
    /\ gen = "outside" => pool.saved = <<>>
    /\ gen = "outside" => Deck_enter(pool).ok

\* C26 witness: an exception left a block whose calls had changed the deck
C26_Witness ==
    /\ out.op = "exit"
    /\ out.res
    /\ marks.made # marks.entry
    /\ Len(marks.entry) > 0

(***************************************************************************)
(* Specification SpecSetdex: one Setdex is created, and colors are         *)
(* appended to it, removed from it and listed.  The variables are reused:  *)
(*   gen    the packed value of the Setdex                                 *)
(*   marks  for every color, the appends minus the removes since creation  *)
(*   last   the last append or remove, with the value it was called on     *)
(*   txn    the append or remove before that one                           *)
(*   out    the colors listed by the last iteration of the current value   *)
(***************************************************************************)
NoSetdexCall == [op |-> "init", color |-> CLUB, value |-> 0]

\* every count can be held by the NUM_BITS bits of its color
Representable(counts) == \A color \in Colors : counts[color] \in 0..SET_MASK

InitSetdex ==
    /\ gen = 0
    /\ marks = [color \in Colors |-> 0]
    /\ last = NoSetdexCall
    /\ txn = NoSetdexCall
    /\ out = NoOut
    /\ hand = IndexedHand_init
    /\ base = IndexedHand_init
    /\ pool = <<>>
    /\ emitted = <<>>
    /\ h0 = IndexedHand_init

\* Setdex(): a fresh Setdex replaces the one in use
SetdexNew ==
    /\ gen # 0 \/ last # NoSetdexCall
    /\ gen' = 0
    /\ marks' = [color \in Colors |-> 0]
    /\ last' = NoSetdexCall
    /\ txn' = NoSetdexCall
    /\ out' = NoOut
    /\ UNCHANGED <<hand, base, pool, emitted, h0>>

\* append(color); not bounds checked, so a full sub-counter can be appended to
SetdexAppend(color) ==
    /\ Representable(marks)
    /\ gen' = Setdex_append(gen, color)
    /\ marks' = [marks EXCEPT ![color] = @ + 1]
    /\ last' = [op |-> "append", color |-> color, value |-> gen]
    /\ txn' = last
    /\ out' = NoOut
    /\ UNCHANGED <<hand, base, pool, emitted, h0>>

\* remove(color); not bounds checked, so an empty sub-counter can be removed from
SetdexRemove(color) ==
    /\ Representable(marks)
    /\ gen' = Setdex_remove(gen, color)
    /\ marks' = [marks EXCEPT ![color] = @ - 1]
    /\ last' = [op |-> "remove", color |-> color, value |-> gen]
    /\ txn' = last
    /\ out' = NoOut
    /\ UNCHANGED <<hand, base, pool, emitted, h0>>

\* list(setdex)
SetdexIter ==
    /\ out.op = "none"
    /\ out' = [op |-> "iter", res |-> Setdex_iter(gen)]
    /\ UNCHANGED <<hand, base, txn, marks, last, pool, gen, emitted, h0>>

NextSetdex ==
    \/ SetdexNew
    \/ \E color \in Colors : SetdexAppend(color)
    \/ \E color \in Colors : SetdexRemove(color)
    \/ SetdexIter

SpecSetdex == InitSetdex /\ [][NextSetdex]_vars

(***************************************************************************)
(* Claims on SpecSetdex                                                    *)
(***************************************************************************)
\* C30: while every color was appended at least as often as removed and at
\* most SET_MASK times more, the sub-counter of every color is its appends
\* minus its removes (so append and remove move the sub-counter of their
\* color by one and no other), remove(s) right after append(s) gives back
\* the packed value, the packed value is within 0..255, and iteration
\* lists every color as often as its count, in the order of the colors.
C30_SetdexCounts ==
    Representable(marks) =>
        /\ gen \in 0..(Pow2(NUM_BITS * Len(Color_iter)) - 1)
        /\ \A color \in Colors : Setdex_count(gen, color) = marks[color]
        /\ (last.op = "remove" /\ txn.op = "append" /\ last.color = txn.color)
              => gen = txn.value
        /\ out.op = "iter" =>
              /\ \A color \in Colors : Count(out.res, color) = marks[color]
              /\ \A i, j \in DOMAIN out.res : i <= j => out.res[i] <= out.res[j]

\* C30 witness: a color was appended and removed again, and the colors of
\* a Setdex with a full sub-counter were listed
C30_Witness ==
    /\ last.op = "remove"
    /\ txn.op = "append"
    /\ last.color = txn.color
    /\ marks[CLUB] = 1
    /\ marks[HEART] = SET_MASK
    /\ marks[DIAMOND] = 2
    /\ out.op = "iter"
    /\ Len(out.res) = 6

====
